---- MODULE Spec2Model ----
(***************************************************************************)
(* A model of the search index, of the matching engine and of the rule     *)
(* serializers of paperless-ngx (src/documents/index.py,                   *)
(* src/documents/matching.py, src/documents/serialisers.py).               *)
(*                                                                         *)
(* Conventions.                                                            *)
(*  - A Python str that the code takes apart (comma lists of ids, match    *)
(*    expressions, document text) is a sequence of one-character strings.  *)
(*    A str the code only copies or compares (names, titles) is a TLA+     *)
(*    string.                                                              *)
(*  - Python's None is the empty sequence << >>; a present optional value  *)
(*    x is <<x>> (Some(x)).                                                *)
(*  - The specifications share one list of variables; each specification   *)
(*    drives the variables of one part of the program and leaves the       *)
(*    others at their idle values.                                         *)
(***************************************************************************)
EXTENDS Integers, Sequences, FiniteSets, TLC

VARIABLES
  index,      \* the committed contents of the on-disk index: a set of records
  scope,      \* one open_index_writer() scope: position, writer, log, outcome
  dq,         \* one DelayedQuery instance (the paginated result cursor)
  searcher,   \* the Searcher the cursor was built over: a snapshot of records
  history,    \* the page fetches made on dq so far, with what each returned
  rule,       \* the MatchingModel handed to matches()
  document,   \* the text of the document handed to matches()
  outcome,    \* what the last call of matches() did
  store,      \* the index directory: does it hold an index, who holds its lock
  writers,    \* the writer scopes of the concurrent processes
  readers,    \* the reader scopes of the concurrent processes
  documents,  \* the ids of the rows of the Document table
  objects     \* the rows of the table of one kind of matching rule

vars ==
  <<index, scope, dq, searcher, history, rule, document, outcome, store,
    writers, readers, documents, objects>>

----------------------------------------------------------------------------
(* Optional values and small helpers                                       *)

None == << >>

Some(x) == <<x>>

IsNone(o) == o = << >>

Val(o) == o[1]

Max2(a, b) == IF a >= b THEN a ELSE b

Min2(a, b) == IF a <= b THEN a ELSE b

\* The elements of a finite set of integers, in increasing order.
RECURSIVE SortedSeq(_)
SortedSeq(S) ==
  IF S = {} THEN << >>
  ELSE LET m == CHOOSE x \in S : \A y \in S : x <= y
       IN  <<m>> \o SortedSeq(S \ {m})

Range(s) == { s[i] : i \in 1..Len(s) }

----------------------------------------------------------------------------
(* Python str operations on sequences of characters                        *)

Digit(d) == CASE d = 0 -> "0" [] d = 1 -> "1" [] d = 2 -> "2" [] d = 3 -> "3"
              [] d = 4 -> "4" [] d = 5 -> "5" [] d = 6 -> "6" [] d = 7 -> "7"
              [] d = 8 -> "8" [] d = 9 -> "9"

Digits == { "0", "1", "2", "3", "4", "5", "6", "7", "8", "9" }

DigitVal(c) == CHOOSE d \in 0..9 : Digit(d) = c

\* str(n) for an integer n
RECURSIVE StrNat(_)
StrNat(n) == IF n < 10 THEN <<Digit(n)>> ELSE StrNat(n \div 10) \o <<Digit(n % 10)>>

Str(n) == IF n < 0 THEN <<"-">> \o StrNat(0 - n) ELSE StrNat(n)

\* sep.join(parts), parts a sequence of strs
RECURSIVE Join(_, _)
Join(parts, sep) ==
  IF parts = << >> THEN << >>
  ELSE IF Len(parts) = 1 THEN parts[1]
  ELSE parts[1] \o sep \o Join(Tail(parts), sep)

\* s.split(c): always at least one piece, pieces may be empty
RECURSIVE SplitFrom(_, _, _)
SplitFrom(s, c, cur) ==
  IF s = << >> THEN <<cur>>
  ELSE IF Head(s) = c THEN <<cur>> \o SplitFrom(Tail(s), c, << >>)
  ELSE SplitFrom(Tail(s), c, Append(cur, Head(s)))

Split(s, c) == SplitFrom(s, c, << >>)

\* int(s) for a str of decimal digits
RECURSIVE NatOf(_, _)
NatOf(s, acc) == IF s = << >> THEN acc ELSE NatOf(Tail(s), 10 * acc + DigitVal(Head(s)))

IsNumeral(s) == s # << >> /\ \A i \in 1..Len(s) : s[i] \in Digits

----------------------------------------------------------------------------
(* Bounds of the model                                                     *)

\* Most update/delete calls issued inside one writer scope.
MaxOps == 2

\* Documents.ARCHIVE_SERIAL_NUMBER_MIN (0 in the program).
ARCHIVE_SERIAL_NUMBER_MIN == 0

\* Documents.ARCHIVE_SERIAL_NUMBER_MAX, scaled down from 0xFFFFFFFF.
ARCHIVE_SERIAL_NUMBER_MAX == 2

----------------------------------------------------------------------------
(* The document of record, as update_document reads it                     *)

\* A domain document.  users_with_perms is what
\* get_users_with_perms(doc, only_with_perms_in=["view_document"]) answers.
Doc(pk, asn, owner, viewers, tags, corr, dtype, path, created) ==
  [ pk |-> pk,
    title |-> "title",
    content |-> "content",
    correspondent |-> corr,
    tags |-> tags,
    document_type |-> dtype,
    storage_path |-> path,
    notes |-> << <<"n">> >>,
    created |-> created,
    added |-> created + 1,
    modified |-> created + 2,
    archive_serial_number |-> asn,
    owner |-> owner,
    users_with_perms |-> viewers ]

Related(id, name) == Some([id |-> id, name |-> name])

User(id) == Some([id |-> id, username |-> "user"])

Tag(id) == [id |-> id, name |-> <<"t">> \o Str(id)]

\* The tag relation of a document holding the tags with the given ids.
TagsOf(ids) == LET s == SortedSeq(ids) IN [i \in 1..Len(s) |-> Tag(s[i])]

----------------------------------------------------------------------------
(* index.py: update_document, the document projector                       *)

\* The range test with the upper bound excluded.
AsnOutOfRangeExclusive(asn) ==
  /\ ~IsNone(asn)
  /\ \/ Val(asn) < ARCHIVE_SERIAL_NUMBER_MIN
     \/ Val(asn) >= ARCHIVE_SERIAL_NUMBER_MAX

\* index.py:103-106, the range test on the ASN
AsnOutOfRange(asn) ==
  /\ ~IsNone(asn)
  /\ \/ Val(asn) < ARCHIVE_SERIAL_NUMBER_MIN
     \/ Val(asn) > ARCHIVE_SERIAL_NUMBER_MAX

\* index.py:102-113: the ASN that is written
IndexedAsn(doc) ==
  IF AsnOutOfRange(doc.archive_serial_number) THEN Some(0)
  ELSE doc.archive_serial_number

\* index.py:107-112: the error entries update_document logs for doc
AsnLog(doc) ==
  IF AsnOutOfRange(doc.archive_serial_number)
  THEN << [level |-> "error", what |-> "asn", pk |-> doc.pk] >>
  ELSE << >>

\* "x if x else None" for a str
NoneIfEmpty(s) == IF s = << >> THEN None ELSE Some(s)

\* index.py:99-101,114-144: the keyword arguments of writer.update_document
ProjectedRecord(doc) ==
  LET tags     == Join([i \in 1..Len(doc.tags) |-> doc.tags[i].name], <<",">>)
      tags_ids == Join([i \in 1..Len(doc.tags) |-> Str(doc.tags[i].id)], <<",">>)
      notes    == Join(doc.notes, <<",">>)
      viewer_ids == Join([i \in 1..Len(doc.users_with_perms) |->
                            Str(doc.users_with_perms[i])], <<",">>)
  IN [ id |-> doc.pk,
       title |-> doc.title,
       content |-> doc.content,
       correspondent |-> IF IsNone(doc.correspondent) THEN None
                         ELSE Some(Val(doc.correspondent).name),
       correspondent_id |-> IF IsNone(doc.correspondent) THEN None
                            ELSE Some(Val(doc.correspondent).id),
       has_correspondent |-> ~IsNone(doc.correspondent),
       tag |-> NoneIfEmpty(tags),
       tag_id |-> NoneIfEmpty(tags_ids),
       has_tag |-> Len(tags) > 0,
       type |-> IF IsNone(doc.document_type) THEN None
                ELSE Some(Val(doc.document_type).name),
       type_id |-> IF IsNone(doc.document_type) THEN None
                   ELSE Some(Val(doc.document_type).id),
       has_type |-> ~IsNone(doc.document_type),
       created |-> doc.created,
       added |-> doc.added,
       asn |-> IndexedAsn(doc),
       modified |-> doc.modified,
       path |-> IF IsNone(doc.storage_path) THEN None
                ELSE Some(Val(doc.storage_path).name),
       path_id |-> IF IsNone(doc.storage_path) THEN None
                   ELSE Some(Val(doc.storage_path).id),
       has_path |-> ~IsNone(doc.storage_path),
       notes |-> notes,
       owner |-> IF IsNone(doc.owner) THEN None ELSE Some(Val(doc.owner).username),
       owner_id |-> IF IsNone(doc.owner) THEN None ELSE Some(Val(doc.owner).id),
       has_owner |-> ~IsNone(doc.owner),
       viewer_id |-> NoneIfEmpty(viewer_ids) ]

----------------------------------------------------------------------------
(* The writer (whoosh AsyncWriter) as index.py uses it                     *)

NoRecord == [id |-> 0]

\* AsyncWriter(open_index()): nothing pending, nothing called yet.
NewWriter == [pending |-> << >>, closed |-> FALSE, calls |-> << >>]

\* writer.update_document(**fields): queued until commit
WriterUpdateDocument(w, rec) ==
  [w EXCEPT !.pending = Append(@, [op |-> "update", rec |-> rec, term |-> rec.id])]

\* writer.delete_by_term("id", doc_id): queued until commit
WriterDeleteByTerm(w, doc_id) ==
  [w EXCEPT !.pending = Append(@, [op |-> "delete", rec |-> NoRecord, term |-> doc_id])]

\* writer.cancel(): the pending changes are dropped and the writer is closed
WriterCancel(w) ==
  [w EXCEPT !.pending = << >>, !.closed = TRUE, !.calls = Append(@, "cancel")]

\* An update that adds its record without replacing the records of the id.
ApplyOpKeepingOld(idx, o) ==
  IF o.op = "update"
  THEN idx \cup { o.rec }
  ELSE { r \in idx : r.id # o.term }

\* One queued change applied to the index contents.  id is the unique field
\* of the schema (index.py:36): an update replaces every record of that id.
ApplyOp(idx, o) ==
  IF o.op = "update"
  THEN { r \in idx : r.id # o.term } \cup { o.rec }
  ELSE { r \in idx : r.id # o.term }

RECURSIVE ApplyOps(_, _)
ApplyOps(idx, ops) ==
  IF ops = << >> THEN idx ELSE ApplyOps(ApplyOp(idx, Head(ops)), Tail(ops))

\* writer.commit(): the pending changes become visible; on a canceled
\* (closed) writer the call changes nothing.
WriterCommit(w, idx) ==
  [ writer |-> [w EXCEPT !.pending = << >>, !.closed = TRUE,
                         !.calls = Append(@, "commit")],
    index  |-> IF w.closed THEN idx ELSE ApplyOps(idx, w.pending) ]

----------------------------------------------------------------------------
(* index.py: update_document / remove_document on a writer                 *)

\* index.py:98-144
update_document(sc, doc) ==
  [sc EXCEPT !.writer = WriterUpdateDocument(@, ProjectedRecord(doc)),
             !.log = @ \o AsnLog(doc),
             !.docs = Append(@, Some(doc))]

\* index.py:151-152
remove_document_by_id(sc, doc_id) ==
  [sc EXCEPT !.writer = WriterDeleteByTerm(@, doc_id),
             !.docs = Append(@, None)]

----------------------------------------------------------------------------
(* index.py: open_index_writer, the writer scope                           *)

\* Exceptions the body of a scope may raise: instances of Exception, which
\* "except Exception" catches, and BaseExceptions that are no Exception.
ExceptionClasses == { "ValueError", "OperationalError" }

BaseOnlyClasses == { "KeyboardInterrupt", "SystemExit" }

Raisable == ExceptionClasses \cup BaseOnlyClasses

\* No scope entered yet.
IdleScope ==
  [ pc |-> "idle", writer |-> NewWriter, log |-> << >>, docs |-> << >>,
    thrown |-> "none", propagated |-> "none", before |-> {} ]

\* index.py:63-72, for an index directory that holds a readable index:
\* the existing contents are opened.
open_index(idx) == idx

\* index.py:77: writer = AsyncWriter(open_index()), then the body runs
open_index_writer_enter(sc, idx) ==
  [sc EXCEPT !.pc = "body", !.writer = NewWriter, !.before = open_index(idx)]

\* The except clause of a scope that logs and goes on without canceling.
open_index_writer_except_nocancel(sc, thrown) ==
  [sc EXCEPT !.log = Append(@, [level |-> "exception", what |-> thrown, pk |-> 0])]

\* index.py:81-83: the except clause
open_index_writer_except(sc, thrown) ==
  [sc EXCEPT !.log = Append(@, [level |-> "exception", what |-> thrown, pk |-> 0]),
             !.writer = WriterCancel(@)]

\* index.py:79-85: how the scope ends when its body returned (thrown =
\* "none") or raised thrown.  The result: the scope and the index contents.
open_index_writer_exit(sc, idx, thrown) ==
  LET caught == thrown \in ExceptionClasses
      sc1 == IF caught THEN open_index_writer_except(sc, thrown) ELSE sc
      fin == WriterCommit(sc1.writer, idx)
  IN  [ scope |-> [sc1 EXCEPT !.writer = fin.writer,
                              !.pc = "exited",
                              !.thrown = thrown,
                              !.propagated = IF caught THEN "none" ELSE thrown],
        index |-> fin.index ]

----------------------------------------------------------------------------
(* Specification SpecWriter: one writer scope and what its body does        *)

DocIds == { 1, 2 }

AsnInputs ==
  { None } \cup
  { Some(a) : a \in (ARCHIVE_SERIAL_NUMBER_MIN - 1)..(ARCHIVE_SERIAL_NUMBER_MAX + 1) }

\* The documents the body of a scope may index.
WriterDocs ==
  { Doc(pk, asn,
        IF pk = 1 THEN User(1) ELSE None,
        IF pk = 1 THEN <<2>> ELSE << >>,
        IF pk = 1 THEN TagsOf({1}) ELSE << >>,
        IF pk = 1 THEN Related(1, "corr") ELSE None,
        None, None, pk) :
      pk \in DocIds, asn \in AsnInputs }

\* What the index may hold before the scope is entered.
InitialIndexes ==
  { {}, { ProjectedRecord(Doc(1, Some(1), None, << >>, << >>, None, None, None, 5)) } }

IdleDQ == [made |-> FALSE]

\* The index directory between calls: it holds an index, nobody writes.
IdleStore == [isdir |-> TRUE, exists |-> TRUE, lock |-> 0]

\* No concurrent process runs.
NoProcesses == store = IdleStore /\ writers = << >> /\ readers = << >>

IdleRule == [made |-> FALSE]

WriterUnchanged ==
  UNCHANGED <<dq, searcher, history, rule, document, outcome, store, writers,
              readers, documents, objects>>

InitWriter ==
  /\ index \in InitialIndexes
  /\ scope = IdleScope
  /\ dq = IdleDQ
  /\ searcher = {}
  /\ history = << >>
  /\ rule = IdleRule
  /\ document = << >>
  /\ outcome = "none"
  /\ NoProcesses
  /\ documents = {}
  /\ objects = {}

\* with open_index_writer() as writer:
EnterScope ==
  /\ scope.pc = "idle"
  /\ scope' = open_index_writer_enter(scope, index)
  /\ UNCHANGED index
  /\ WriterUnchanged

\* update_document(writer, doc) in the body of the scope
BodyUpdate ==
  /\ scope.pc = "body"
  /\ Len(scope.docs) < MaxOps
  /\ \E doc \in WriterDocs : scope' = update_document(scope, doc)
  /\ UNCHANGED index
  /\ WriterUnchanged

\* remove_document(writer, doc) in the body of the scope
BodyRemove ==
  /\ scope.pc = "body"
  /\ Len(scope.docs) < MaxOps
  /\ \E pk \in DocIds : scope' = remove_document_by_id(scope, pk)
  /\ UNCHANGED index
  /\ WriterUnchanged

\* The body returns: the scope is left normally.
ExitNormal ==
  /\ scope.pc = "body"
  /\ LET r == open_index_writer_exit(scope, index, "none")
     IN  scope' = r.scope /\ index' = r.index
  /\ WriterUnchanged

\* The body raises: the scope is left by an exception.
ExitRaise ==
  /\ scope.pc = "body"
  /\ \E e \in Raisable :
       LET r == open_index_writer_exit(scope, index, e)
       IN  scope' = r.scope /\ index' = r.index
  /\ WriterUnchanged

NextWriter == EnterScope \/ BodyUpdate \/ BodyRemove \/ ExitNormal \/ ExitRaise

SpecWriter == InitWriter /\ [][NextWriter]_vars

----------------------------------------------------------------------------
(* Claims about the writer scope and the document projector                *)

Calls == scope.writer.calls

Exited == scope.pc = "exited"

\* The entries of the scope's log of the given level.
LogEntries(level) == { i \in 1..Len(scope.log) : scope.log[i].level = level }

C4_ExactlyOneTerminatingCall ==
  Exited => Len(Calls) = 1

\* C5, as stated: when an error aborts a scope after changes were issued, the
\* index afterwards holds what it held before the scope was entered, for
\* every kind of error.
C5_NoPartialCommit ==
  (Exited /\ scope.thrown # "none" /\ scope.docs # << >>) => index = scope.before

\* C8: an ASN outside [ARCHIVE_SERIAL_NUMBER_MIN, ARCHIVE_SERIAL_NUMBER_MAX]
\* is written as 0 with exactly one error entry logged and all other fields
\* written; an ASN inside the range, bounds included, is written unchanged
\* and nothing is logged.
C8_AsnRange ==
  scope.pc = "body" =>
    /\ \A i \in 1..Len(scope.docs) :
         ~IsNone(scope.docs[i]) =>
           LET d == Val(scope.docs[i])
               w == scope.writer.pending[i]
               a == d.archive_serial_number
               inside == Val(a) \in ARCHIVE_SERIAL_NUMBER_MIN..ARCHIVE_SERIAL_NUMBER_MAX
           IN  /\ w.op = "update"
               /\ (~IsNone(a) /\ ~inside) => w.rec.asn = Some(0)
               /\ (~IsNone(a) /\ inside) => w.rec.asn = a
               /\ w.rec.id = d.pk
               /\ w.rec.title = d.title
               /\ w.rec.content = d.content
               /\ w.rec.created = d.created
               /\ w.rec.added = d.added
               /\ w.rec.modified = d.modified
               /\ w.rec.has_owner = ~IsNone(d.owner)
               /\ w.rec.has_correspondent = ~IsNone(d.correspondent)
               /\ w.rec.has_tag = (d.tags # << >>)
    /\ \A pk \in DocIds :
         Cardinality({ i \in LogEntries("error") : scope.log[i].pk = pk }) =
         Cardinality({ i \in 1..Len(scope.docs) :
                         /\ ~IsNone(scope.docs[i])
                         /\ Val(scope.docs[i]).pk = pk
                         /\ ~IsNone(Val(scope.docs[i]).archive_serial_number)
                         /\ Val(Val(scope.docs[i]).archive_serial_number) \notin
                              ARCHIVE_SERIAL_NUMBER_MIN..ARCHIVE_SERIAL_NUMBER_MAX })

\* C8, witness: one update with the ASN one above the range and one with the
\* ASN on the upper bound, in the same scope.
C8_Witness ==
  /\ scope.pc = "body"
  /\ Len(scope.docs) = 2
  /\ ~IsNone(scope.docs[1]) /\ ~IsNone(scope.docs[2])
  /\ Val(scope.docs[1]).archive_serial_number = Some(ARCHIVE_SERIAL_NUMBER_MAX + 1)
  /\ Val(scope.docs[2]).archive_serial_number = Some(ARCHIVE_SERIAL_NUMBER_MAX)
  /\ scope.writer.pending[1].rec.asn = Some(0)
  /\ scope.writer.pending[2].rec.asn = Some(ARCHIVE_SERIAL_NUMBER_MAX)
  /\ Len(scope.log) = 1

----------------------------------------------------------------------------
(* whoosh query objects, as index.py builds them                           *)

\* The text of a Term is a Python bool, int or str.
BoolText(b) == [bool |-> b]

IntText(n) == [int |-> n]

StrText(s) == [str |-> s]

Term(field, text) == [kind |-> "Term", field |-> field, text |-> text]

Not(q) == [kind |-> "Not", sub |-> q]

Or(subs) == [kind |-> "Or", subs |-> subs]

And(subs) == [kind |-> "And", subs |-> subs]

\* start and end are optional dates
DateRange(field, start, end) ==
  [kind |-> "DateRange", field |-> field, start |-> start, end |-> end]

----------------------------------------------------------------------------
(* index.py: DelayedQuery._get_query_filter                                *)

\* query_params is a sequence of [k, v] entries with distinct keys, in the
\* order the mapping iterates.
HasParam(params, key) == \E i \in 1..Len(params) : params[i].k = key

Param(params, key) == params[CHOOSE i \in 1..Len(params) : params[i].k = key].v

\* Python str literals the code compares parameter values with
S_true == <<"t", "r", "u", "e">>

S_false == <<"f", "a", "l", "s", "e">>

\* The date parameters, which isoparse reads
DateKeys ==
  { "created__date__lt", "created__date__gt", "added__date__gt", "added__date__lt" }

\* dateutil's isoparse(v).  A date of the model is a day number and its ISO
\* form is its decimal numeral; any other str makes isoparse raise ValueError.
IsoParses(v) == IsNumeral(v)

isoparse(v) == NatOf(v, 0)

\* index.py:175-176: one Term per piece of v.split(",")
TagTerms(v) ==
  LET ids == Split(v, ",")
  IN  [i \in 1..Len(ids) |-> Term("tag_id", StrText(ids[i]))]

\* index.py:178-179
TagNotTerms(v) ==
  LET ids == Split(v, ",")
  IN  [i \in 1..Len(ids) |-> Not(Term("tag_id", StrText(ids[i])))]

\* A translation that makes a term of every key it does not know.
CriteriaForEveryKey(k, v) ==
  IF k = "user" THEN << >> ELSE << Term(k, StrText(<<"v">>)) >>

\* index.py:172-203: the criteria one parameter appends
CriteriaFor(k, v) ==
  CASE k = "correspondent__id" -> << Term("correspondent_id", StrText(v)) >>
    [] k = "tags__id__all" -> TagTerms(v)
    [] k = "tags__id__none" -> TagNotTerms(v)
    [] k = "document_type__id" -> << Term("type_id", StrText(v)) >>
    [] k = "correspondent__isnull" ->
         << Term("has_correspondent", BoolText(v = S_false)) >>
    [] k = "is_tagged" -> << Term("has_tag", BoolText(v = S_true)) >>
    [] k = "document_type__isnull" -> << Term("has_type", BoolText(v = S_false)) >>
    [] k = "created__date__lt" -> << DateRange("created", None, Some(isoparse(v))) >>
    [] k = "created__date__gt" -> << DateRange("created", Some(isoparse(v)), None) >>
    [] k = "added__date__gt" -> << DateRange("added", Some(isoparse(v)), None) >>
    [] k = "added__date__lt" -> << DateRange("added", None, Some(isoparse(v))) >>
    [] k = "storage_path__id" -> << Term("path_id", StrText(v)) >>
    [] k = "storage_path__isnull" -> << Term("has_path", BoolText(v = S_false)) >>
    [] OTHER -> << >>

\* index.py:170-203: the loop over query_params.items()
RECURSIVE Criterias(_)
Criterias(params) ==
  IF params = << >> THEN << >>
  ELSE CriteriaFor(Head(params).k, Head(params).v) \o Criterias(Tail(params))

\* The loop raises when isoparse rejects the value of a date parameter.
FilterRaises(params) ==
  \E i \in 1..Len(params) : params[i].k \in DateKeys /\ ~IsoParses(params[i].v)

\* The permission terms without the test on the owner.
user_criterias_no_owner(params) ==
  << Term("has_owner", BoolText(FALSE)) >> \o
  ( IF HasParam(params, "user")
    THEN << Term("viewer_id", StrText(Str(Param(params, "user")))) >>
    ELSE << >> )

\* index.py:205-210
user_criterias(params) ==
  << Term("has_owner", BoolText(FALSE)) >> \o
  ( IF HasParam(params, "user")
    THEN << Term("owner_id", IntText(Param(params, "user"))),
            Term("viewer_id", StrText(Str(Param(params, "user")))) >>
    ELSE << >> )

\* The filter without the permission predicate when there are criteria.
get_query_filter_criteria_only(params) ==
  LET criterias == Criterias(params)
  IN  IF Len(criterias) > 0 THEN And(criterias) ELSE Or(user_criterias(params))

\* index.py:169-215, when no date parameter is malformed
get_query_filter(params) ==
  LET criterias == Criterias(params)
  IN  IF Len(criterias) > 0
      THEN And(Append(criterias, Or(user_criterias(params))))
      ELSE Or(user_criterias(params))

----------------------------------------------------------------------------
(* index.py: DelayedQuery._get_query_sortedby                              *)

\* The value of 'ordering' is a str: Ordering(n, name) is n times "-"
\* followed by name, and name does not start with "-".
Ordering(dashes, name) == [dashes |-> dashes, name |-> name]

\* index.py:223-231
sort_fields_map ==
  [ created |-> "created",
    modified |-> "modified",
    added |-> "added",
    title |-> "title",
    correspondent__name |-> "correspondent",
    document_type__name |-> "type",
    archive_serial_number |-> "asn" ]

\* A sort mapping that takes the direction before it looks the key up.
get_query_sortedby_reverse_unknown(params) ==
  IF ~HasParam(params, "ordering") THEN [sortedby |-> None, reverse |-> FALSE]
  ELSE LET o == Param(params, "ordering")
           reverse == o.dashes > 0
           field == IF reverse THEN Ordering(o.dashes - 1, o.name) ELSE o
       IN  IF field.dashes > 0 \/ field.name \notin DOMAIN sort_fields_map
           THEN [sortedby |-> None, reverse |-> reverse]
           ELSE [sortedby |-> Some(sort_fields_map[field.name]), reverse |-> reverse]

\* index.py:217-242.  field.startswith("-") is o.dashes > 0 and field[1:]
\* drops one dash; a field that still starts with "-" is no key of the map.
get_query_sortedby(params) ==
  IF ~HasParam(params, "ordering") THEN [sortedby |-> None, reverse |-> FALSE]
  ELSE LET o == Param(params, "ordering")
           reverse == o.dashes > 0
           field == IF reverse THEN Ordering(o.dashes - 1, o.name) ELSE o
       IN  IF field.dashes > 0 \/ field.name \notin DOMAIN sort_fields_map
           THEN [sortedby |-> None, reverse |-> FALSE]
           ELSE [sortedby |-> Some(sort_fields_map[field.name]), reverse |-> reverse]

----------------------------------------------------------------------------
(* The searcher (whoosh Searcher) over the schema of get_schema            *)

\* index.py:42-58: the field types of the schema that filters refer to
BooleanFields == { "has_owner", "has_correspondent", "has_tag", "has_type", "has_path" }

NumericFields == { "owner_id", "correspondent_id", "type_id", "path_id" }

KeywordFields == { "viewer_id", "tag_id" }

\* KEYWORD(commas=True): the tokens of a comma-separated value
Tokens(o) ==
  IF IsNone(o) THEN {}
  ELSE { t \in Range(Split(Val(o), ",")) : t # << >> }

\* The number a NUMERIC field reads a Term's text as, if any
NumericValue(text) ==
  IF "int" \in DOMAIN text THEN Some(text.int)
  ELSE IF "str" \in DOMAIN text /\ IsNumeral(text.str) THEN Some(NatOf(text.str, 0))
  ELSE None

\* A keyword Term that matches when its text is a prefix of a token.
KeywordMatchesPrefix(text, value) ==
  /\ "str" \in DOMAIN text
  /\ \E t \in Tokens(value) :
       /\ Len(text.str) <= Len(t)
       /\ SubSeq(t, 1, Len(text.str)) = text.str

\* A keyword Term matches when its text is one of the field's tokens.
KeywordMatches(text, value) ==
  /\ "str" \in DOMAIN text
  /\ text.str \in Tokens(value)

\* query.Term(field, text) on one record
TermMatches(field, text, rec) ==
  CASE field \in BooleanFields -> "bool" \in DOMAIN text /\ rec[field] = text.bool
    [] field \in NumericFields ->
         /\ ~IsNone(NumericValue(text))
         /\ rec[field] = NumericValue(text)
    [] field \in KeywordFields -> KeywordMatches(text, rec[field])
    [] OTHER -> FALSE

\* query.DateRange(field, start, end) on one record, both ends inclusive
DateRangeMatches(q, rec) ==
  /\ IsNone(q.start) \/ Val(q.start) <= rec[q.field]
  /\ IsNone(q.end) \/ rec[q.field] <= Val(q.end)

RECURSIVE QueryMatches(_, _)
QueryMatches(q, rec) ==
  CASE q.kind = "Term" -> TermMatches(q.field, q.text, rec)
    [] q.kind = "Not" -> ~QueryMatches(q.sub, rec)
    [] q.kind = "DateRange" -> DateRangeMatches(q, rec)
    [] q.kind = "Or" -> \E i \in 1..Len(q.subs) : QueryMatches(q.subs[i], rec)
    [] q.kind = "And" -> \A i \in 1..Len(q.subs) : QueryMatches(q.subs[i], rec)

\* The texts of the model in lexicographic order, for sorting by a TEXT field
TextOrder == << "corr", "title", "type" >>

TextRank(o) ==
  IF IsNone(o) THEN 0 ELSE CHOOSE i \in 1..Len(TextOrder) : TextOrder[i] = Val(o)

\* The value a sorted search orders a record by
SortKey(rec, field) ==
  CASE field \in { "created", "modified", "added" } -> rec[field]
    [] field = "asn" -> IF IsNone(rec.asn) THEN 0 ELSE Val(rec.asn)
    [] field = "title" -> TextRank(Some(rec.title))
    [] OTHER -> TextRank(rec[field])

\* A posting of the searcher: a record of the index snapshot, the document
\* it was projected from and the raw relevance score the primary query gives
\* it (NoMatch when the primary query does not match it).
NoMatch == 0 - 1

Posting(doc, score) == [doc |-> doc, rec |-> ProjectedRecord(doc), score |-> score]

\* Whether posting a comes before posting b in the results
Before(a, b, sortedby, reverse) ==
  IF IsNone(sortedby)
  THEN \/ a.score > b.score
       \/ a.score = b.score /\ a.rec.id < b.rec.id
  ELSE LET ka == SortKey(a.rec, Val(sortedby))
           kb == SortKey(b.rec, Val(sortedby))
       IN  \/ IF reverse THEN ka > kb ELSE ka < kb
           \/ ka = kb /\ a.rec.id < b.rec.id

RECURSIVE Ranked(_, _, _)
Ranked(postings, sortedby, reverse) ==
  IF postings = {} THEN << >>
  ELSE LET first == CHOOSE a \in postings :
                      \A b \in postings \ {a} : Before(a, b, sortedby, reverse)
       IN  <<first>> \o Ranked(postings \ {first}, sortedby, reverse)

\* The (score, docnum) pair of a hit; a sorted search keeps the sort key in
\* the place of the score.
TopEntry(p, sortedby) ==
  << IF IsNone(sortedby) THEN p.score ELSE SortKey(p.rec, Val(sortedby)), p.rec.id >>

\* searcher.search_page(q, mask=, filter=, pagenum=, pagelen=, sortedby=,
\* reverse=): the Results of the top pagenum * pagelen hits, wrapped in a
\* ResultsPage whose page number is clamped to the last page.
search_page(srch, mask, filter, pagenum, pagelen, sortedby, reverse) ==
  LET matching == { p \in srch : /\ p.score # NoMatch
                                 /\ p.rec.id \notin mask
                                 /\ QueryMatches(filter, p.rec) }
      ranked == Ranked(matching, sortedby, reverse)
      total == Len(ranked)
      limit == Min2(pagenum * pagelen, total)
      pagecount == (total + pagelen - 1) \div pagelen
      pn == Min2(pagecount, pagenum)
      offset == (pn - 1) * pagelen
  IN  [ results |-> [ top_n |-> [i \in 1..limit |-> TopEntry(ranked[i], sortedby)],
                      docs |-> { p.rec.id : p \in matching },
                      fragmenter |-> "default",
                      formatter |-> "default" ],
        pagenum |-> pn,
        offset |-> offset,
        pagelen |-> IF offset + pagelen > total THEN total - offset ELSE pagelen,
        total |-> total ]

\* The hits a ResultsPage shows: top_n[offset : offset + pagelen]
PageHits(page) ==
  LET lo == Max2(page.offset, 0)
      hi == Min2(page.offset + page.pagelen, Len(page.results.top_n))
  IN  IF hi <= lo THEN << >> ELSE SubSeq(page.results.top_n, lo + 1, hi)

----------------------------------------------------------------------------
(* index.py: DelayedQuery, the paginated result cursor                     *)

\* index.py:244-249
NewDelayedQuery(params, page_size) ==
  [ made |-> TRUE,
    query_params |-> params,
    page_size |-> page_size,
    saved_results |-> << >>,
    first_score |-> None ]

\* Python truth of first_score: None and 0.0 are false
Truthy(fs) == ~IsNone(fs) /\ Val(fs) # 0

\* hit[0] / self.first_score: the quotient, kept as numerator and denominator
Ratio(a, b) == [num |-> a, den |-> b]

\* index.py:293-306: DelayedFullTextQuery._get_query.  The parsed query is
\* the one the searcher's postings are scored for; there is no mask.
get_query(self) == [raised |-> "none", q |-> "parsed", mask |-> {}]

\* A similarity query that searches for nothing in particular when the
\* reference document is missing.
more_like_this_get_query_fallback(self, srch, table) ==
  [raised |-> "none", q |-> "key terms", mask |-> {}]

\* index.py:310-327: DelayedMoreLikeThisQuery._get_query.  table holds the
\* ids of the rows of the Document table: int() raises ValueError on a
\* value that is no numeral, Document.objects.get raises DoesNotExist on an
\* id without a row; the query is made of the key terms of the reference
\* document, which the mask keeps out of the results.
more_like_this_get_query(self, srch, table) ==
  LET v == Param(self.query_params, "more_like_id")
  IN  IF ~IsNumeral(v)
      THEN [raised |-> "ValueError", q |-> "none", mask |-> {}]
      ELSE IF NatOf(v, 0) \notin table
      THEN [raised |-> "Document.DoesNotExist", q |-> "none", mask |-> {}]
      ELSE [raised |-> "none", q |-> "key terms", mask |-> { NatOf(v, 0) }]

\* A cache test that never finds a page.
is_saved_never(self, start) == FALSE

\* index.py:256
is_saved(self, start) == start \in DOMAIN self.saved_results

\* The top score taken from the first hit the page shows.
first_score_of_own_page(self, page, sortedby) ==
  IF ~Truthy(self.first_score) /\ page.total > 0 /\ IsNone(sortedby)
  THEN Some(PageHits(page)[1][1])
  ELSE self.first_score

\* The top score taken anew from the first hit of each page computed.
first_score_of_latest_page(self, page, sortedby) ==
  IF page.total > 0 /\ IsNone(sortedby)
  THEN Some(PageHits(page)[1][1])
  ELSE self.first_score

\* The top score taken whether or not a sort field was asked for.
first_score_sorted_too(self, page, sortedby) ==
  IF ~Truthy(self.first_score) /\ page.total > 0
  THEN Some(page.results.top_n[1][1])
  ELSE self.first_score

\* index.py:274-275: page.results[0] is the best hit of the whole Results
first_score_after(self, page, sortedby) ==
  IF ~Truthy(self.first_score) /\ page.total > 0 /\ IsNone(sortedby)
  THEN Some(page.results.top_n[1][1])
  ELSE self.first_score

\* index.py:277-285
normalize(top_n, first_score) ==
  [ i \in 1..Len(top_n) |->
      << IF Truthy(first_score) THEN Some(Ratio(top_n[i][1], Val(first_score)))
         ELSE None,
         top_n[i][2] >> ]

\* index.py:255-289: self[start:stop], qm being what self._get_query() does
\* when it is called (index.py:259).  The result: the cursor afterwards, the
\* exception raised if any, the page returned, and the arguments of the
\* search that was executed if one was.
DQ_getitem_with(self, srch, start, qm) ==
  IF is_saved(self, start)
  THEN [ self |-> self, raised |-> "none",
         ret |-> Some(self.saved_results[start]), search |-> None ]
  ELSE IF qm.raised # "none"
  THEN [ self |-> self, raised |-> qm.raised, ret |-> None, search |-> None ]
  ELSE IF FilterRaises(self.query_params)
  THEN [ self |-> self, raised |-> "ValueError", ret |-> None, search |-> None ]
  ELSE
    LET sb == get_query_sortedby(self.query_params)
        filter == get_query_filter(self.query_params)
        pagenum == (start \div self.page_size) + 1
        page == search_page(srch, qm.mask, filter, pagenum, self.page_size,
                            sb.sortedby, sb.reverse)
        fs == first_score_after(self, page, sb.sortedby)
        done == [page EXCEPT !.results.top_n = normalize(@, fs),
                             !.results.fragmenter = "ContextFragmenter(surround=50)",
                             !.results.formatter = "HtmlFormatter(span, ...)"]
    IN  [ self |-> [self EXCEPT !.first_score = fs,
                                !.saved_results = (start :> done) @@ @],
          raised |-> "none",
          ret |-> Some(done),
          search |-> Some([ filter |-> filter, pagenum |-> pagenum,
                            pagelen |-> self.page_size,
                            sortedby |-> sb.sortedby, reverse |-> sb.reverse ]) ]

\* self[start:stop] on a DelayedFullTextQuery
DQ_getitem(self, srch, start) == DQ_getitem_with(self, srch, start, get_query(self))

\* self[start:stop] on a DelayedMoreLikeThisQuery
MLT_getitem(self, srch, start, table) ==
  DQ_getitem_with(self, srch, start, more_like_this_get_query(self, srch, table))

\* One entry of the history of a cursor
Fetched(call, start, r) ==
  [ call |-> call, start |-> start, raised |-> r.raised, page |-> r.ret,
    search |-> r.search,
    value |-> IF call = "len" /\ ~IsNone(r.ret) THEN Some(Val(r.ret).total) ELSE None ]

CursorUnchanged ==
  UNCHANGED <<index, scope, rule, document, outcome, store, writers, readers,
              documents, objects>>

\* dq[start:stop], at most limit calls in all
GetItemStep(start, limit) ==
  /\ dq.made
  /\ Len(history) < limit
  /\ LET r == DQ_getitem(dq, searcher, start)
     IN  /\ dq' = r.self
         /\ history' = Append(history, Fetched("getitem", start, r))
  /\ UNCHANGED searcher
  /\ CursorUnchanged

\* index.py:251-253: len(dq) is len(self[0:1])
LenStep(limit) ==
  /\ dq.made
  /\ Len(history) < limit
  /\ LET r == DQ_getitem(dq, searcher, 0)
     IN  /\ dq' = r.self
         /\ history' = Append(history, Fetched("len", 0, r))
  /\ UNCHANGED searcher
  /\ CursorUnchanged

----------------------------------------------------------------------------
(* Specification SpecCursor: page fetches on one cursor                    *)

\* Most calls made on one cursor.
MaxFetches == 3

\* The start offsets callers ask for, and the page sizes.
Starts == { 0, 1, 2 }

PageSizes == { 1, 2 }

\* The raw relevance scores of the postings.
ScoreValues == { 0, 1, 2 }

Entry(k, v) == [k |-> k, v |-> v]

\* A document everybody may see.
PublicDoc(pk) == Doc(pk, Some(pk), None, << >>, << >>, None, None, None, 4 - pk)

\* Three public documents with every assignment of scores.
CursorSearchers ==
  { { Posting(PublicDoc(pk), sc[pk]) : pk \in 1..3 } : sc \in [1..3 -> ScoreValues] }

CursorParams ==
  { << Entry("query", "q") >>,
    << Entry("query", "q"), Entry("ordering", Ordering(0, "created")) >>,
    << Entry("query", "q"), Entry("ordering", Ordering(1, "bogus")) >> }

InitCursor ==
  /\ index = {}
  /\ scope = IdleScope
  /\ searcher \in CursorSearchers
  /\ \E params \in CursorParams, ps \in PageSizes : dq = NewDelayedQuery(params, ps)
  /\ history = << >>
  /\ rule = IdleRule
  /\ document = << >>
  /\ outcome = "none"
  /\ NoProcesses
  /\ documents = {}
  /\ objects = {}

GetItem == \E start \in Starts : GetItemStep(start, MaxFetches)

Length == LenStep(MaxFetches)

NextCursor == GetItem \/ Length

SpecCursor == InitCursor /\ [][NextCursor]_vars

----------------------------------------------------------------------------
(* Specification SpecSearch: one search over varied documents, permissions, *)
(* filter parameters and orderings                                          *)

\* Most leading "-" of an 'ordering' value.
MaxDashes == 2

Users == { 1, 2, 12 }

OwnerChoices == { None } \cup { User(u) : u \in Users }

S_1 == <<"1">>

S_2 == <<"2">>

S_12 == <<"1", ",", "2">>

S_x == <<"x">>

\* The filter parameters of a request, besides 'user'
CriteriaChoices ==
  { << >>,
    << Entry("tags__id__all", S_1) >>,
    << Entry("tags__id__all", S_12) >>,
    << Entry("tags__id__none", S_2) >>,
    << Entry("is_tagged", S_true) >>,
    << Entry("is_tagged", S_x) >>,
    << Entry("correspondent__id", S_1) >>,
    << Entry("correspondent__isnull", S_false), Entry("tags__id__none", S_12) >>,
    << Entry("created__date__gt", S_2) >>,
    << Entry("added__date__lt", S_x) >>,
    << Entry("page", S_2) >>,
    << Entry("document_type__id", S_1) >>,
    << Entry("document_type__isnull", S_true) >>,
    << Entry("storage_path__id", S_2), Entry("page", S_2) >>,
    << Entry("storage_path__isnull", S_false), Entry("created__date__lt", S_2) >>,
    << Entry("added__date__gt", S_2), Entry("is_tagged", S_false) >> }

\* The requesting user, patched into the parameters by the view
UserChoices == { << >> } \cup { << Entry("user", u) >> : u \in Users }

\* Document 1 with every owner, every set of viewers and three tag sets;
\* document 2 with two owners.
PermissionSearchers ==
  { { Posting(Doc(1, None, o1, SortedSeq(v1), TagsOf(t1),
                  IF t1 = {} THEN None ELSE Related(1, "corr"),
                  None, None, 1), s1),
      Posting(Doc(2, None, o2, <<1>>, TagsOf({2}), None, Related(1, "type"),
                  Related(2, "path"), 3), 1) } :
      o1 \in OwnerChoices \ { User(12) }, v1 \in SUBSET Users, t1 \in { {}, {1}, {1, 2} },
      s1 \in { NoMatch, 2 }, o2 \in { None, User(12) } }

\* Requests that vary the user and the filter parameters
PermissionParams ==
  { << Entry("query", "q") >> \o c \o u : c \in CriteriaChoices, u \in UserChoices }

\* The values of 'ordering'
OrderingNames ==
  { "created", "modified", "added", "title", "correspondent__name",
    "document_type__name", "archive_serial_number", "bogus", "", "asn", "type" }

OrderingParams ==
  { << Entry("query", "q"), Entry("ordering", Ordering(n, name)) >> :
      n \in 0..MaxDashes, name \in OrderingNames }

OrderingSearcher == { Posting(PublicDoc(pk), pk) : pk \in 1..3 }

InitSearch ==
  /\ index = {}
  /\ scope = IdleScope
  /\ \/ /\ searcher \in PermissionSearchers
        /\ \E params \in PermissionParams : dq = NewDelayedQuery(params, 2)
     \/ /\ searcher = OrderingSearcher
        /\ \E params \in OrderingParams, ps \in PageSizes :
             dq = NewDelayedQuery(params, ps)
  /\ history = << >>
  /\ rule = IdleRule
  /\ document = << >>
  /\ outcome = "none"
  /\ NoProcesses
  /\ documents = {}
  /\ objects = {}

SearchFirstPage == GetItemStep(0, 1)

SearchLength == LenStep(1)

NextSearch == SearchFirstPage \/ SearchLength

SpecSearch == InitSearch /\ [][NextSearch]_vars

----------------------------------------------------------------------------
(* Claims about the permission filter, the query compiler and the cursor   *)

\* The entries of the history whose fetch executed a search
Executed == { i \in 1..Len(history) : ~IsNone(history[i].search) }

\* The entries of the history that returned a page
Returned == { i \in 1..Len(history) : ~IsNone(history[i].page) }

RequestHasUser == dq.made /\ HasParam(dq.query_params, "user")

\* u may see document d: d has no owner, or u owns d, or u holds view
\* permission on d.
Visible(d, u) ==
  \/ IsNone(d.owner)
  \/ Val(d.owner).id = u
  \/ \E i \in 1..Len(d.users_with_perms) : d.users_with_perms[i] = u

\* The ids a comma-separated parameter value lists
ListedIds(v) == { NatOf(t, 0) : t \in { x \in Range(Split(v, ",")) : IsNumeral(x) } }

TagIdsOf(d) == { d.tags[i].id : i \in 1..Len(d.tags) }

\* Document d satisfies the filter parameter k = v, stated on the document.
Satisfies(d, k, v) ==
  CASE k = "tags__id__all" -> ListedIds(v) \subseteq TagIdsOf(d)
    [] k = "tags__id__none" -> ListedIds(v) \cap TagIdsOf(d) = {}
    [] k = "is_tagged" -> (v = S_true) = (d.tags # << >>)
    [] k = "correspondent__id" ->
         ~IsNone(d.correspondent) /\ Str(Val(d.correspondent).id) = v
    [] k = "correspondent__isnull" -> (v = S_false) = ~IsNone(d.correspondent)
    [] k = "created__date__gt" -> d.created >= NatOf(v, 0)
    [] k = "added__date__lt" -> d.added <= NatOf(v, 0)
    [] k = "created__date__lt" -> d.created <= NatOf(v, 0)
    [] k = "added__date__gt" -> d.added >= NatOf(v, 0)
    [] k = "document_type__id" ->
         ~IsNone(d.document_type) /\ Str(Val(d.document_type).id) = v
    [] k = "document_type__isnull" -> (v = S_false) = ~IsNone(d.document_type)
    [] k = "storage_path__id" ->
         ~IsNone(d.storage_path) /\ Str(Val(d.storage_path).id) = v
    [] k = "storage_path__isnull" -> (v = S_false) = ~IsNone(d.storage_path)
    [] OTHER -> TRUE

SatisfiesAll(d, params) ==
  \A i \in 1..Len(params) : Satisfies(d, params[i].k, params[i].v)

\* The documents the primary query matches
PrimaryMatches == { p \in searcher : p.score # NoMatch }

HitIds(page) == { PageHits(page)[i][2] : i \in 1..Len(PageHits(page)) }

\* C1: a search executed with requesting user u returns document d, among
\* the documents that satisfy the primary query and the other filter
\* criteria, if and only if d has no owner, or d's owner is u, or u holds
\* view permission on d.
C1_PermissionFilter ==
  RequestHasUser =>
    \A i \in Executed :
      LET u == Param(dq.query_params, "user")
          page == Val(history[i].page)
          expected == { p.doc.pk : p \in { x \in PrimaryMatches :
                                             /\ SatisfiesAll(x.doc, dq.query_params)
                                             /\ Visible(x.doc, u) } }
      IN  /\ page.results.docs = expected
          /\ HitIds(page) = expected

\* C1, witness: user 1 searches; document 1 is owned by user 2 and shared
\* with user 12 only and is not returned; document 2 is owned by user 12,
\* shared with user 1, and is returned.
C1_Witness ==
  /\ RequestHasUser
  /\ Param(dq.query_params, "user") = 1
  /\ \E i \in Executed : HitIds(Val(history[i].page)) = { 2 }
  /\ \E p \in PrimaryMatches :
       /\ p.doc.pk = 1
       /\ p.doc.owner = User(2)
       /\ p.doc.users_with_perms = <<12>>
       /\ SatisfiesAll(p.doc, dq.query_params)
  /\ \E p \in PrimaryMatches : p.doc.pk = 2 /\ p.doc.owner = User(12)

\* The keys of the filter vocabulary
RecognizedKeys ==
  { "correspondent__id", "tags__id__all", "tags__id__none", "document_type__id",
    "correspondent__isnull", "is_tagged", "document_type__isnull",
    "created__date__lt", "created__date__gt", "added__date__gt",
    "added__date__lt", "storage_path__id", "storage_path__isnull" }

Commas(v) == Cardinality({ i \in 1..Len(v) : v[i] = "," })

\* The number of criteria the parameters ask for: one per recognized key,
\* one per listed id for the two tag keys.
RECURSIVE CriteriaCount(_)
CriteriaCount(params) ==
  IF params = << >> THEN 0
  ELSE LET e == Head(params)
       IN  ( IF e.k \in { "tags__id__all", "tags__id__none" } THEN Commas(e.v) + 1
             ELSE IF e.k \in RecognizedKeys THEN 1
             ELSE 0 ) + CriteriaCount(Tail(params))

\* C2: the compiled filter always contains the permission predicate: with
\* at least one recognized criterion it is the AND of all criteria and the
\* permission predicate, otherwise it is the permission predicate alone;
\* without a 'user' parameter the predicate admits only ownerless records.
C2_FilterHasPermissionPredicate ==
  \A i \in Executed :
    LET f == Val(history[i].search).filter
        n == CriteriaCount(dq.query_params)
        perm == IF n > 0 THEN f.subs[Len(f.subs)] ELSE f
    IN  /\ n > 0 =>
             /\ f.kind = "And"
             /\ Len(f.subs) = n + 1
             /\ \A j \in 1..n : f.subs[j].kind \in { "Term", "Not", "DateRange" }
        /\ perm.kind = "Or"
        /\ \A p \in searcher :
             QueryMatches(perm, p.rec) <=>
               IF RequestHasUser THEN Visible(p.doc, Param(dq.query_params, "user"))
               ELSE IsNone(p.doc.owner)
        /\ \A p \in searcher :
             p.doc.pk \in Val(history[i].page).results.docs => QueryMatches(perm, p.rec)

\* C2, witness: a request without 'user' listing two tag ids: the filter is
\* the AND of two criteria and the permission predicate, and a document that
\* has an owner is in the index.
C2_Witness ==
  /\ ~RequestHasUser
  /\ \E i \in Executed :
       /\ Val(history[i].search).filter.kind = "And"
       /\ Len(Val(history[i].search).filter.subs) = 3
  /\ \E p \in searcher : ~IsNone(p.doc.owner) /\ p.score # NoMatch /\ p.doc.pk = 1

\* The seven keys of the sort table and the index field of each
SortTable ==
  { <<"created", "created">>, <<"modified", "modified">>, <<"added", "added">>,
    <<"title", "title">>, <<"correspondent__name", "correspondent">>,
    <<"document_type__name", "type">>, <<"archive_serial_number", "asn">> }

\* C9: an 'ordering' whose key, after removing an optional leading "-", is
\* not in the sort table yields no sort field and non-reversed direction and
\* the fetch does not raise; a key in the table yields the mapped field, with
\* reverse true exactly when the leading "-" is present.
C9_SortMapping ==
  (dq.made /\ HasParam(dq.query_params, "ordering")) =>
    \A i \in 1..Len(history) :
      LET o == Param(dq.query_params, "ordering")
          dashed == o.dashes > 0
          inTable == (o.dashes <= 1) /\ (\E t \in SortTable : t[1] = o.name)
          h == history[i]
      IN  /\ h.raised = "none"
          /\ ~IsNone(h.page)
          /\ ~IsNone(h.search)
          /\ inTable =>
               /\ \E t \in SortTable :
                    t[1] = o.name /\ Val(h.search).sortedby = Some(t[2])
               /\ Val(h.search).reverse = dashed
          /\ ~inTable =>
               /\ Val(h.search).sortedby = None
               /\ Val(h.search).reverse = FALSE

\* C9, witness: a page fetched with ordering "-bogus", and nothing raised.
C9_Witness ==
  /\ dq.made
  /\ HasParam(dq.query_params, "ordering")
  /\ Param(dq.query_params, "ordering") = Ordering(1, "bogus")
  /\ Len(history) = 1
  /\ history[1].call = "getitem"
  /\ history[1].raised = "none"
  /\ Len(PageHits(Val(history[1].page))) > 0

\* The cursor asked for no sort field: no 'ordering', or an unknown one
Unsorted ==
  dq.made /\ IsNone(get_query_sortedby(dq.query_params).sortedby)

\* C6: on one cursor the search is executed at most once per start offset:
\* a repeated fetch of a start offset returns the identical cached page
\* without executing the search again, and length() is a fetch of offset 0.
C6_OneSearchPerStart ==
  /\ \A s \in Starts :
       Cardinality({ i \in Executed : history[i].start = s }) <= 1
  /\ \A i, j \in Returned :
       (i < j /\ history[i].start = history[j].start) =>
         /\ IsNone(history[j].search)
         /\ history[j].page = history[i].page
  /\ \A i \in 1..Len(history) :
       history[i].call = "len" =>
         /\ history[i].start = 0
         /\ (\E j \in 1..(i - 1) : history[j].start = 0) => IsNone(history[i].search)

\* C6, witness: offset 0 fetched, then length(), then offset 0 again: one
\* search in all, the same page each time, and the page has hits.
C6_Witness ==
  /\ Len(history) = 3
  /\ history[1].call = "getitem" /\ history[1].start = 0
  /\ history[2].call = "len"
  /\ history[3].call = "getitem" /\ history[3].start = 0
  /\ Executed = { 1 }
  /\ history[3].page = history[1].page
  /\ Len(PageHits(Val(history[1].page))) > 1

\* The raw score the searcher gives the document numbered n
RawScore(n) == (CHOOSE p \in searcher : p.rec.id = n).score

\* The raw score of the top hit of the first page
TopRawScore ==
  CHOOSE m \in { p.score : p \in PrimaryMatches } :
    \A p \in PrimaryMatches : p.score <= m

\* The page at start offset s is the first page
IsFirstPage(s) == s \div dq.page_size = 0

\* C7: on a cursor with no explicit sort, in whatever order pages are
\* fetched, the top hit of the first page has normalized score 1.0 when it
\* has a score, and every hit on every page has its raw score divided by the
\* raw top score of the first page.
C7_NormalizedByFirstPageTop ==
  Unsorted =>
    \A i \in Returned :
      LET hits == PageHits(Val(history[i].page))
      IN  /\ \A k \in 1..Len(hits) :
               IF TopRawScore = 0 THEN IsNone(hits[k][1])
               ELSE hits[k][1] = Some(Ratio(RawScore(hits[k][2]), TopRawScore))
          /\ (IsFirstPage(history[i].start) /\ Len(hits) > 0 /\ ~IsNone(hits[1][1])) =>
               Val(hits[1][1]).num = Val(hits[1][1]).den

\* C7, witness: the last page is fetched before the first one; its hit has
\* a raw score below the top score and is normalized by the top score.
C7_Witness ==
  /\ Unsorted
  /\ dq.page_size = 1
  /\ Len(history) = 2
  /\ history[1].start = 2 /\ history[2].start = 0
  /\ LET late == PageHits(Val(history[1].page))
         first == PageHits(Val(history[2].page))
     IN  /\ Len(late) = 1 /\ Len(first) = 1
         /\ late[1][1] = Some(Ratio(1, 2))
         /\ first[1][1] = Some(Ratio(2, 2))

----------------------------------------------------------------------------
(* matching.py: the characters and the regular expressions of the model    *)

\* \s and \w on the characters of the model
IsSpace(c) == c \in { " ", "\t" }

IsWord(c) == c \in { "a", "b", "A", "B", "_" } \cup Digits

Lower(c) == CASE c = "A" -> "a" [] c = "B" -> "b" [] OTHER -> c

LowerStr(s) == [i \in 1..Len(s) |-> Lower(s[i])]

\* str.strip()
RECURSIVE LStrip(_)
LStrip(s) == IF s # << >> /\ IsSpace(Head(s)) THEN LStrip(Tail(s)) ELSE s

RECURSIVE RStrip(_)
RStrip(s) ==
  IF s # << >> /\ IsSpace(s[Len(s)]) THEN RStrip(SubSeq(s, 1, Len(s) - 1)) ELSE s

Strip(s) == RStrip(LStrip(s))

\* re.compile(r"\s+").sub(" ", s): every run of whitespace becomes one space
RECURSIVE NormSpace(_)
NormSpace(s) ==
  IF s = << >> THEN << >>
  ELSE IF IsSpace(Head(s))
       THEN <<" ">> \o NormSpace(LStrip(s))
       ELSE <<Head(s)>> \o NormSpace(Tail(s))

\* A compiled pattern is a sequence of elements: a character, which matches
\* itself, WS for \s+ and ANY for an unescaped dot.
WS == "\\s+"

ANY == "(dot)"

\* An element that is a character matches it, ignoring case under
\* re.IGNORECASE.
ElemMatches(e, c, ignorecase) ==
  \/ e = ANY /\ c # "\n"
  \/ e # ANY /\ e # WS /\ (IF ignorecase THEN Lower(e) = Lower(c) ELSE e = c)

\* The positions at which a match of pat that starts after position i of
\* text may end.
RECURSIVE Ends(_, _, _, _)
Ends(pat, text, i, ignorecase) ==
  IF pat = << >> THEN { i }
  ELSE IF Head(pat) = WS
  THEN UNION { Ends(Tail(pat), text, j, ignorecase) :
                 j \in { x \in (i + 1)..Len(text) :
                           \A k \in (i + 1)..x : IsSpace(text[k]) } }
  ELSE IF i < Len(text) /\ ElemMatches(Head(pat), text[i + 1], ignorecase)
  THEN Ends(Tail(pat), text, i + 1, ignorecase)
  ELSE {}

\* \b holds after position k of text: exactly one neighbour is a word
\* character.
WordBoundary(text, k) ==
  (k >= 1 /\ IsWord(text[k])) # (k < Len(text) /\ IsWord(text[k + 1]))

\* re.search of pat without the word boundaries around it.
SearchAnywhere(pat, text, ignorecase) ==
  \E i \in 0..Len(text) : Ends(pat, text, i, ignorecase) # {}

\* re.search(rf"\b{pat}\b", text, flags)
SearchWord(pat, text, ignorecase) ==
  \E i \in 0..Len(text) :
    /\ WordBoundary(text, i)
    /\ \E j \in Ends(pat, text, i, ignorecase) : WordBoundary(text, j)

\* re.search(re.compile(pat, flags), text): anywhere in the text
SearchRegex(pat, text, ignorecase) == SearchAnywhere(pat, text, ignorecase)

\* re.escape(s): every character of s stands for itself
Escape(s) == s

\* re.escape(s).replace(r"\ ", r"\s+")
EscapeSpacesAsRuns(s) == [i \in 1..Len(s) |-> IF s[i] = " " THEN WS ELSE s[i]]

\* re.compile of a match expression.  Of the characters of the model "(" is
\* the only one that opens a construct, and nothing closes it: a pattern
\* with "(" does not compile.  "." matches any character.
RegexCompiles(s) == \A i \in 1..Len(s) : s[i] # "("

RegexOf(s) == [i \in 1..Len(s) |-> IF s[i] = "." THEN ANY ELSE s[i]]

----------------------------------------------------------------------------
(* matching.py: _split_match                                               *)

\* The end of a quoted phrase "([^"]+)" that opens at position i of s, or 0
QuoteEnd(s, i) ==
  IF s[i] # "\"" THEN 0
  ELSE LET closing == { j \in (i + 2)..Len(s) :
                          /\ s[j] = "\""
                          /\ \A k \in (i + 1)..(j - 1) : s[k] # "\"" }
       IN  IF closing = {} THEN 0 ELSE CHOOSE j \in closing : TRUE

\* The end of the run of non-space characters (\S+) that starts at i
RECURSIVE WordEnd(_, _)
WordEnd(s, i) ==
  IF i < Len(s) /\ ~IsSpace(s[i + 1]) THEN WordEnd(s, i + 1) ELSE i

\* findterms(match): the terms of r'"([^"]+)"|(\S+)', left to right
RECURSIVE FindTerms(_, _)
FindTerms(s, i) ==
  IF i > Len(s) THEN << >>
  ELSE IF QuoteEnd(s, i) # 0
  THEN << SubSeq(s, i + 1, QuoteEnd(s, i) - 1) >> \o FindTerms(s, QuoteEnd(s, i) + 1)
  ELSE IF ~IsSpace(s[i])
  THEN << SubSeq(s, i, WordEnd(s, i)) >> \o FindTerms(s, WordEnd(s, i) + 1)
  ELSE FindTerms(s, i + 1)

\* matching.py:163-179
split_match(match) ==
  LET terms == FindTerms(match, 1)
  IN  [i \in 1..Len(terms) |-> EscapeSpacesAsRuns(Escape(NormSpace(Strip(terms[i]))))]

----------------------------------------------------------------------------
(* matching.py: matches                                                    *)

\* MatchingModel.MATCH_*: the values of matching_algorithm that matches()
\* names.
MATCH_NONE == "MATCH_NONE"

MATCH_ANY == "MATCH_ANY"

MATCH_ALL == "MATCH_ALL"

MATCH_LITERAL == "MATCH_LITERAL"

MATCH_REGEX == "MATCH_REGEX"

MATCH_FUZZY == "MATCH_FUZZY"

MATCH_AUTO == "MATCH_AUTO"

SupportedAlgorithms ==
  { MATCH_NONE, MATCH_ANY, MATCH_ALL, MATCH_LITERAL, MATCH_REGEX, MATCH_FUZZY,
    MATCH_AUTO }

\* A matching rule: the fields of a MatchingModel that matches() reads.
MatchingModel(match, is_insensitive, matching_algorithm) ==
  [made |-> TRUE, match |-> match, is_insensitive |-> is_insensitive,
   matching_algorithm |-> matching_algorithm]

\* What a call of matches() did: it returned a value, having logged a
\* reason at debug level ("reason"), an error ("error") or nothing ("none"),
\* or it raised.
ReturnedOutcome(value, log) == [kind |-> "returned", value |-> value, log |-> log]

RaisedOutcome(exc) == [kind |-> "raised", exc |-> exc]

NoOutcome == [kind |-> "none"]

\* A result that comes with log_reason() exactly when it is True.
ReasonedResult(result) == ReturnedOutcome(result, IF result THEN "reason" ELSE "none")

\* matching.py:71: not matching_model.match.strip()
IsBlank(match) == Strip(match) = << >>

\* matching.py:80-90 returning True as soon as one word is found
match_all_one_suffices(mm, content) ==
  LET words == split_match(mm.match)
  IN  ReasonedResult(\E i \in 1..Len(words) :
                       SearchWord(words[i], content, mm.is_insensitive))

\* matching.py:80-90
match_all(mm, content) ==
  LET words == split_match(mm.match)
  IN  ReasonedResult(\A i \in 1..Len(words) :
                       SearchWord(words[i], content, mm.is_insensitive))

\* matching.py:92-97 searching without the flags of the rule
match_any_without_flags(mm, content) ==
  LET words == split_match(mm.match)
  IN  ReasonedResult(\E i \in 1..Len(words) : SearchWord(words[i], content, FALSE))

\* matching.py:92-97
match_any(mm, content) ==
  LET words == split_match(mm.match)
  IN  ReasonedResult(\E i \in 1..Len(words) :
                       SearchWord(words[i], content, mm.is_insensitive))

\* matching.py:99-113
match_literal(mm, content) ==
  ReasonedResult(SearchWord(Escape(mm.match), content, mm.is_insensitive))

\* matching.py:115-133 without the except clause: re.error propagates
match_regex_uncaught(mm, content) ==
  IF ~RegexCompiles(mm.match)
  THEN RaisedOutcome("re.error")
  ELSE ReasonedResult(SearchRegex(RegexOf(mm.match), content, mm.is_insensitive))

\* matching.py:115-133
match_regex(mm, content) ==
  IF ~RegexCompiles(mm.match)
  THEN ReturnedOutcome(FALSE, "error")
  ELSE ReasonedResult(SearchRegex(RegexOf(mm.match), content, mm.is_insensitive))

\* re.sub(r"[^\w\s]", "", s)
StripPunctuation(s) == SelectSeq(s, LAMBDA c : IsWord(c) \/ IsSpace(c))

IsSubstring(needle, hay) ==
  \E i \in 0..(Len(hay) - Len(needle)) :
    SubSeq(hay, i + 1, i + Len(needle)) = needle

\* fuzz.partial_ratio(a, b, score_cutoff=90) is truthy.  On strings of fewer
\* than six characters an alignment scores 90 only if the shorter string
\* occurs in the longer one.  What the library answers when the shorter
\* string is empty is not fixed here: both answers are possible.
PartialRatioTruthy(a, b) ==
  LET short == IF Len(a) <= Len(b) THEN a ELSE b
      long  == IF Len(a) <= Len(b) THEN b ELSE a
  IN  IF short = << >> THEN BOOLEAN ELSE { IsSubstring(short, long) }

\* matching.py:135-153
match_fuzzy(mm, content) ==
  LET match == StripPunctuation(mm.match)
      text  == StripPunctuation(content)
      m     == IF mm.is_insensitive THEN LowerStr(match) ELSE match
      t     == IF mm.is_insensitive THEN LowerStr(text) ELSE text
  IN  { ReasonedResult(r) : r \in PartialRatioTruthy(m, t) }

\* matching.py:159-160 with the else branch answering False instead of raising
dispatch_unknown_false(mm, content) ==
  CASE mm.matching_algorithm = MATCH_NONE    -> { ReturnedOutcome(FALSE, "none") }
    [] mm.matching_algorithm = MATCH_ALL     -> { match_all(mm, content) }
    [] mm.matching_algorithm = MATCH_ANY     -> { match_any(mm, content) }
    [] mm.matching_algorithm = MATCH_LITERAL -> { match_literal(mm, content) }
    [] mm.matching_algorithm = MATCH_REGEX   -> { match_regex(mm, content) }
    [] mm.matching_algorithm = MATCH_FUZZY   -> match_fuzzy(mm, content)
    [] mm.matching_algorithm = MATCH_AUTO    -> { ReturnedOutcome(FALSE, "none") }
    [] OTHER                                 -> { ReturnedOutcome(FALSE, "none") }

\* matching.py:77-160: the chain of tests on matching_algorithm
dispatch(mm, content) ==
  CASE mm.matching_algorithm = MATCH_NONE    -> { ReturnedOutcome(FALSE, "none") }
    [] mm.matching_algorithm = MATCH_ALL     -> { match_all(mm, content) }
    [] mm.matching_algorithm = MATCH_ANY     -> { match_any(mm, content) }
    [] mm.matching_algorithm = MATCH_LITERAL -> { match_literal(mm, content) }
    [] mm.matching_algorithm = MATCH_REGEX   -> { match_regex(mm, content) }
    [] mm.matching_algorithm = MATCH_FUZZY   -> match_fuzzy(mm, content)
    [] mm.matching_algorithm = MATCH_AUTO    -> { ReturnedOutcome(FALSE, "none") }
    [] OTHER                                 -> { RaisedOutcome("NotImplementedError") }

\* matching.py:65-160 without the test of lines 71-72
matches_no_blank_test(mm, content) == dispatch(mm, content)

\* matching.py:65-160: the outcomes matches(matching_model, document) may have
matches(mm, content) ==
  IF IsBlank(mm.match)
  THEN { ReturnedOutcome(FALSE, "none") }
  ELSE dispatch(mm, content)

----------------------------------------------------------------------------
(* SpecMatch: matches() applied to a rule and a document text              *)

MaxMatchParts == 2

\* The pieces match expressions are put together from: words, whitespace,
\* a quoted phrase with a run of whitespace in it, a lone quote, a dot and
\* an opening parenthesis.
MatchPieces ==
  { <<"a">>, <<"B">>, <<" ">>, <<"\t">>, <<"\"", "a", " ", " ", "b", "\"">>,
    <<"\"">>, <<".">>, <<"(">> }

RECURSIVE PiecesUpTo(_, _)
PiecesUpTo(pieces, n) ==
  IF n = 0 THEN { << >> }
  ELSE LET shorter == PiecesUpTo(pieces, n - 1)
       IN  shorter \cup { s \o p : s \in shorter, p \in pieces }

MatchExpressions == PiecesUpTo(MatchPieces, MaxMatchParts)

\* Values of matching_algorithm that no branch of matches() names.
UnsupportedAlgorithms == { "MATCH_7", "MATCH_MINUS_1", "MATCH_NULL" }

Algorithms == SupportedAlgorithms \cup UnsupportedAlgorithms

\* Document texts: empty, one word, words in both cases, runs of whitespace,
\* punctuation.
Contents ==
  { << >>,
    <<"a">>,
    <<"a", "b">>,
    <<"a", " ", "b">>,
    <<"A", " ", "\t", "b">>,
    <<"b", " ", "a">>,
    <<"B", ".", "a">>,
    <<"b", "a", "b">>,
    <<" ", "(", "a", ")">>,
    <<"\"", "b", "\"">> }

MatchUnchanged ==
  UNCHANGED <<index, scope, dq, searcher, history, store, writers, readers,
              documents, objects>>

InitMatch ==
  /\ index = {}
  /\ scope = IdleScope
  /\ dq = IdleDQ
  /\ searcher = {}
  /\ history = << >>
  /\ \E match \in MatchExpressions, is_insensitive \in BOOLEAN,
        matching_algorithm \in Algorithms :
       rule = MatchingModel(match, is_insensitive, matching_algorithm)
  /\ document \in Contents
  /\ outcome = NoOutcome
  /\ NoProcesses
  /\ documents = {}
  /\ objects = {}

\* matches(rule, document)
Matches ==
  /\ outcome = NoOutcome
  /\ outcome' \in matches(rule, document)
  /\ UNCHANGED <<rule, document>>
  /\ MatchUnchanged

NextMatch == Matches

SpecMatch == InitMatch /\ [][NextMatch]_vars

----------------------------------------------------------------------------
(* Claims about the matching engine                                        *)

Called == outcome.kind # "none"

Unsupported == rule.matching_algorithm \notin SupportedAlgorithms

\* C10, as stated: for every match expression and every document text,
\* matches() under a matching_algorithm it does not support raises
\* NotImplementedError.
C10_UnsupportedAlwaysRaises ==
  (Called /\ Unsupported)
    => (outcome.kind = "raised" /\ outcome.exc = "NotImplementedError")

\* C10, amended: for every match expression that is not blank and every
\* document text, matches() under a matching_algorithm it does not support
\* raises NotImplementedError; under a blank match expression it returns
\* False, whatever the algorithm.
C10_UnsupportedNonBlankRaises ==
  (Called /\ Unsupported) =>
    IF IsBlank(rule.match)
    THEN outcome.kind = "returned" /\ outcome.value = FALSE
    ELSE outcome.kind = "raised" /\ outcome.exc = "NotImplementedError"

\* C10, witness: a rule with an unsupported algorithm and a match expression
\* of a word and whitespace raised on a text that holds the word.
C10_Witness ==
  /\ Called /\ Unsupported
  /\ rule.match = <<"a", " ">>
  /\ document = <<"a", " ", "b">>
  /\ outcome.kind = "raised"

\* The match expression of the rule is empty or holds whitespace only.
BlankRule == \A i \in 1..Len(rule.match) : rule.match[i] \in { " ", "\t" }

\* C11: for every rule whose match expression is empty or whitespace only,
\* matches() returns False, for every value of matching_algorithm (the
\* unsupported ones included), both values of is_insensitive and every
\* document text; it logs nothing.
C11_BlankMatchIsFalse ==
  (Called /\ BlankRule) => outcome = ReturnedOutcome(FALSE, "none")

\* C11, witness: a rule of whitespace only under REGEX, which as a pattern
\* would be found in the text, returned False.
C11_Witness ==
  /\ Called
  /\ rule.match = <<" ">>
  /\ rule.matching_algorithm = MATCH_REGEX
  /\ document = <<"a", " ", "b">>
  /\ outcome.kind = "returned" /\ outcome.value = FALSE

----------------------------------------------------------------------------
(* index.py: open_index step by step, and writer and reader scopes that    *)
(* run concurrently on one index directory                                 *)

\* index.py:65: exists_in(settings.INDEX_DIR)
exists_in(st) == st.exists

\* index.py:70-72: makedirs and create_in(settings.INDEX_DIR, get_schema()):
\* the table of contents of an empty index replaces the one that was there.
create_in(st) ==
  [ store |-> [st EXCEPT !.isdir = TRUE, !.exists = TRUE], index |-> {} ]

\* A process that has not entered its writer scope.
IdleWriterProcess ==
  [ pc |-> "idle", seen |-> FALSE, locked |-> FALSE, base |-> {},
    pending |-> << >> ]

\* A process that has not entered its reader scope.
IdleReaderProcess ==
  [ pc |-> "idle", seen |-> FALSE, gen |-> 0, snapshot |-> {}, reads |-> << >> ]

\* AsyncWriter(ix) (index.py:77): the writer takes the write lock of the
\* index and starts from the committed contents; when another writer holds
\* the lock it takes nothing and queues what it is given.
AsyncWriterNew(p, w, st, idx) ==
  IF st.lock = 0
  THEN [ proc  |-> [p EXCEPT !.pc = "body", !.locked = TRUE, !.base = idx],
         store |-> [st EXCEPT !.lock = w] ]
  ELSE [ proc  |-> [p EXCEPT !.pc = "body", !.locked = FALSE],
         store |-> st ]

\* writer.commit() (index.py:85): a writer that holds the lock makes its
\* changes, applied to the contents it started from, the committed contents
\* and frees the lock; a writer that queued starts its thread, which waits
\* for the lock.
AsyncWriterCommit(p, st, idx) ==
  IF p.locked
  THEN [ proc  |-> [p EXCEPT !.pc = "done", !.locked = FALSE],
         store |-> [st EXCEPT !.lock = 0],
         index |-> ApplyOps(p.base, p.pending),
         committed |-> TRUE ]
  ELSE [ proc  |-> [p EXCEPT !.pc = "waiting"],
         store |-> st,
         index |-> idx,
         committed |-> FALSE ]

\* open_index().searcher() (index.py:90) reading the committed contents
\* anew at every search instead of once.
searcher_live(snapshot, idx) == idx

\* What a searcher opened on snapshot answers while idx is committed: the
\* contents as of its opening.
searcher_view(snapshot, idx) == snapshot

----------------------------------------------------------------------------
(* SpecConcurrent: writer scopes and a reader scope interleaved            *)

MaxBodyOps == 1

MaxReads == 1

WriterIds == { 1, 2 }

ReaderIds == { 3 }

\* The documents the concurrent scopes index: process w indexes document w.
ConcurrentDocs(w) ==
  { d \in WriterDocs : d.archive_serial_number = None /\ d.pk = w }

\* The ids the concurrent scopes remove: the document the index starts with.
ConcurrentRemovals == { 1 }

\* history lists the committed contents, generation after generation.
Generation == Len(history)

ConcurrentUnchanged ==
  UNCHANGED <<scope, dq, searcher, rule, document, outcome, documents, objects>>

InitConcurrent ==
  /\ store \in { [isdir |-> e, exists |-> e, lock |-> 0] : e \in BOOLEAN }
  /\ index \in (IF store.exists THEN InitialIndexes ELSE { {} })
  /\ history = << index >>
  /\ writers = [w \in WriterIds |-> IdleWriterProcess]
  /\ readers = [r \in ReaderIds |-> IdleReaderProcess]
  /\ scope = IdleScope
  /\ dq = IdleDQ
  /\ searcher = {}
  /\ rule = IdleRule
  /\ document = << >>
  /\ outcome = "none"
  /\ documents = {}
  /\ objects = {}

\* A writer scope is entered: open_index() tests exists_in (index.py:65)
WriterCheck(w) ==
  /\ writers[w].pc = "idle"
  /\ writers' = [writers EXCEPT ![w].pc = "checked", ![w].seen = exists_in(store)]
  /\ UNCHANGED <<index, store, history, readers>>
  /\ ConcurrentUnchanged

\* open_index() returns: open_dir when the test found an index (index.py:66),
\* create_in when it found none (index.py:72)
WriterOpen(w) ==
  /\ writers[w].pc = "checked"
  /\ writers' = [writers EXCEPT ![w].pc = "opened"]
  /\ IF writers[w].seen
     THEN UNCHANGED <<index, store, history>>
     ELSE LET c == create_in(store)
          IN  index' = c.index /\ store' = c.store /\ history' = Append(history, c.index)
  /\ UNCHANGED readers
  /\ ConcurrentUnchanged

\* writer = AsyncWriter(open_index()) (index.py:77)
WriterNew(w) ==
  /\ writers[w].pc = "opened"
  /\ LET n == AsyncWriterNew(writers[w], w, store, index)
     IN  writers' = [writers EXCEPT ![w] = n.proc] /\ store' = n.store
  /\ UNCHANGED <<index, history, readers>>
  /\ ConcurrentUnchanged

\* update_document(writer, document) in add_or_update_document (index.py:157)
WriterUpdate(w) ==
  /\ writers[w].pc = "body"
  /\ Len(writers[w].pending) < MaxBodyOps
  /\ \E doc \in ConcurrentDocs(w) :
       writers' = [writers EXCEPT ![w].pending =
                     WriterUpdateDocument([pending |-> @], ProjectedRecord(doc)).pending]
  /\ UNCHANGED <<index, store, history, readers>>
  /\ ConcurrentUnchanged

\* remove_document(writer, document) in remove_document_from_index
\* (index.py:162)
WriterRemove(w) ==
  /\ writers[w].pc = "body"
  /\ Len(writers[w].pending) < MaxBodyOps
  /\ \E pk \in ConcurrentRemovals :
       writers' = [writers EXCEPT ![w].pending =
                     WriterDeleteByTerm([pending |-> @], pk).pending]
  /\ UNCHANGED <<index, store, history, readers>>
  /\ ConcurrentUnchanged

\* The body returns and the scope commits (index.py:85)
WriterExit(w) ==
  /\ writers[w].pc = "body"
  /\ LET c == AsyncWriterCommit(writers[w], store, index)
     IN  /\ writers' = [writers EXCEPT ![w] = c.proc]
         /\ store' = c.store
         /\ index' = c.index
         /\ history' = IF c.committed THEN Append(history, c.index) ELSE history
  /\ UNCHANGED readers
  /\ ConcurrentUnchanged

\* The thread of a writer that queued gets the lock once it is free
WriterThreadLocks(w) ==
  /\ writers[w].pc = "waiting"
  /\ store.lock = 0
  /\ writers' = [writers EXCEPT ![w].pc = "replaying", ![w].locked = TRUE,
                                ![w].base = index]
  /\ store' = [store EXCEPT !.lock = w]
  /\ UNCHANGED <<index, history, readers>>
  /\ ConcurrentUnchanged

\* The thread replays the queued changes and commits
WriterThreadCommits(w) ==
  /\ writers[w].pc = "replaying"
  /\ LET c == AsyncWriterCommit(writers[w], store, index)
     IN  /\ writers' = [writers EXCEPT ![w] = c.proc]
         /\ store' = c.store
         /\ index' = c.index
         /\ history' = Append(history, c.index)
  /\ UNCHANGED readers
  /\ ConcurrentUnchanged

\* A reader scope is entered: open_index() tests exists_in (index.py:65)
ReaderCheck(r) ==
  /\ readers[r].pc = "idle"
  /\ readers' = [readers EXCEPT ![r].pc = "checked", ![r].seen = exists_in(store)]
  /\ UNCHANGED <<index, store, history, writers>>
  /\ ConcurrentUnchanged

\* searcher = open_index().searcher() (index.py:90)
ReaderOpen(r) ==
  /\ readers[r].pc = "checked"
  /\ IF readers[r].seen
     THEN UNCHANGED <<index, store, history>>
     ELSE LET c == create_in(store)
          IN  index' = c.index /\ store' = c.store /\ history' = Append(history, c.index)
  /\ readers' = [readers EXCEPT ![r].pc = "open", ![r].gen = Len(history'),
                                ![r].snapshot = index']
  /\ UNCHANGED writers
  /\ ConcurrentUnchanged

\* A search on the searcher inside the scope
ReaderRead(r) ==
  /\ readers[r].pc = "open"
  /\ Len(readers[r].reads) < MaxReads
  /\ readers' = [readers EXCEPT ![r].reads =
                   Append(@, [seen |-> searcher_view(readers[r].snapshot, index),
                              at |-> Generation])]
  /\ UNCHANGED <<index, store, history, writers>>
  /\ ConcurrentUnchanged

\* searcher.close() (index.py:95)
ReaderClose(r) ==
  /\ readers[r].pc = "open"
  /\ readers' = [readers EXCEPT ![r].pc = "closed"]
  /\ UNCHANGED <<index, store, history, writers>>
  /\ ConcurrentUnchanged

NextConcurrent ==
  \/ \E w \in WriterIds :
       \/ WriterCheck(w) \/ WriterOpen(w) \/ WriterNew(w) \/ WriterUpdate(w)
       \/ WriterRemove(w) \/ WriterExit(w) \/ WriterThreadLocks(w)
       \/ WriterThreadCommits(w)
  \/ \E r \in ReaderIds :
       ReaderCheck(r) \/ ReaderOpen(r) \/ ReaderRead(r) \/ ReaderClose(r)

SpecConcurrent == InitConcurrent /\ [][NextConcurrent]_vars

----------------------------------------------------------------------------
(* Claims about concurrent scopes                                          *)

\* The changes some writer holds that are not committed.
Uncommitted ==
  { w \in WriterIds : writers[w].pc \in { "body", "waiting", "replaying" }
                        /\ writers[w].pending # << >> }

\* C12: in every interleaving of a reader scope with writer scopes, every
\* search of the reader answers exactly the contents that were committed
\* when the reader was opened, whatever was committed afterwards and
\* whatever changes writers hold uncommitted; and neither the opening nor a
\* search of the reader waits for a writer: both can be taken whoever
\* holds the write lock.
C12_ReaderSeesSnapshot ==
  \A r \in ReaderIds :
    /\ \A i \in 1..Len(readers[r].reads) :
         readers[r].reads[i].seen = history[readers[r].gen]
    /\ readers[r].pc = "checked" => ENABLED ReaderOpen(r)
    /\ (readers[r].pc = "open" /\ Len(readers[r].reads) < MaxReads)
         => ENABLED ReaderRead(r)

\* C12, witness: a search made after a later commit changed the contents
\* still answered the contents as of the opening, while a writer held the
\* lock with changes not yet committed.
C12_Witness ==
  \E r \in ReaderIds :
    /\ \E i \in 1..Len(readers[r].reads) :
         /\ readers[r].reads[i].at > readers[r].gen
         /\ history[readers[r].reads[i].at] # readers[r].reads[i].seen
         /\ readers[r].reads[i].seen = history[readers[r].gen]
    /\ store.lock # 0
    /\ Uncommitted # {}

\* What the index holds when the changes of writer a and then those of
\* writer b are applied to the contents the run started with.
SerialOutcome(a, b) ==
  ApplyOps(ApplyOps(history[1], writers[a].pending), writers[b].pending)

WritersDone == \A w \in WriterIds : writers[w].pc = "done"

NoReaderEntered == \A r \in ReaderIds : readers[r].pc = "idle"

\* C13: in every interleaving of two writer scopes entered concurrently on
\* one index, at most one of them at a time holds uncommitted changes
\* against the index (the write lock), and once both have committed the
\* index holds the changes of both, applied one scope after the other: no
\* change is lost.
C13_SingleWriterNoLoss ==
  /\ Cardinality({ w \in WriterIds : writers[w].locked }) <= 1
  /\ (WritersDone /\ NoReaderEntered) =>
       index \in { SerialOutcome(1, 2), SerialOutcome(2, 1) }

----------------------------------------------------------------------------
(* index.py: add_or_update_document, remove_document_from_index and a      *)
(* search by id, one after the other                                       *)

\* Every field of the schema, as if each were declared stored=True.
EveryFieldName == DOMAIN ProjectedRecord(Doc(1, None, None, << >>, << >>, None, None, None, 1))

\* index.py:35-60, get_schema: the fields declared with stored=True
StoredFieldNames == { "id" }

\* The stored fields of an indexed record: what a hit on it carries.
StoredFields(rec) == [f \in StoredFieldNames |-> rec[f]]

\* A scope that is entered, runs the one call of its body and returns.
ScopeAround(sc, idx) == open_index_writer_exit(sc, idx, "none")

\* index.py:155-157
add_or_update_document(idx, doc) ==
  ScopeAround(update_document(open_index_writer_enter(IdleScope, idx), doc), idx).index

\* index.py:160-162 (remove_document, index.py:147-148, passes doc.pk on)
remove_document_from_index(idx, pk) ==
  ScopeAround(remove_document_by_id(open_index_writer_enter(IdleScope, idx), pk), idx).index

\* A search for Term("id", pk) on a searcher opened over idx: the stored
\* fields of every record under the id.
search_by_id(idx, pk) ==
  LET found == { r \in idx : r.id = pk }
  IN  [ count |-> Cardinality(found), fields |-> { StoredFields(r) : r \in found } ]

MaxStoreOps == 3

StoreUnchanged ==
  UNCHANGED <<scope, dq, searcher, rule, document, outcome, store, writers, readers,
              documents, objects>>

InitStore ==
  /\ index \in InitialIndexes
  /\ history = << >>
  /\ scope = IdleScope
  /\ dq = IdleDQ
  /\ searcher = {}
  /\ rule = IdleRule
  /\ document = << >>
  /\ outcome = "none"
  /\ NoProcesses
  /\ documents = {}
  /\ objects = {}

\* add_or_update_document(doc)
AddOrUpdate ==
  /\ Len(history) < MaxStoreOps
  /\ \E doc \in WriterDocs :
       /\ index' = add_or_update_document(index, doc)
       /\ history' = Append(history, [op |-> "add", pk |-> doc.pk, doc |-> Some(doc),
                                      hits |-> None])
  /\ StoreUnchanged

\* remove_document_from_index(doc)
RemoveFromIndex ==
  /\ Len(history) < MaxStoreOps
  /\ \E pk \in DocIds :
       /\ index' = remove_document_from_index(index, pk)
       /\ history' = Append(history, [op |-> "remove", pk |-> pk, doc |-> None,
                                      hits |-> None])
  /\ StoreUnchanged

\* A search by id on a searcher opened now
SearchById ==
  /\ Len(history) < MaxStoreOps
  /\ \E pk \in DocIds :
       history' = Append(history, [op |-> "search", pk |-> pk, doc |-> None,
                                   hits |-> Some(search_by_id(index, pk))])
  /\ UNCHANGED index
  /\ StoreUnchanged

NextStore == AddOrUpdate \/ RemoveFromIndex \/ SearchById

SpecStore == InitStore /\ [][NextStore]_vars

----------------------------------------------------------------------------
(* Claims about the index contents                                         *)

\* The writes to id i so far, in order.
WritesTo(i) == SelectSeq(history, LAMBDA h : h.pk = i /\ h.op # "search")

RecordsOf(i) == { r \in index : r.id = i }

IndexedThenSearched ==
  /\ Len(history) >= 2
  /\ history[Len(history) - 1].op = "add"
  /\ history[Len(history)].op = "search"
  /\ history[Len(history)].pk = history[Len(history) - 1].pk

LastIndexed == Val(history[Len(history) - 1].doc)

LastHits == Val(history[Len(history)].hits)

----------------------------------------------------------------------------
(* matching.py: match_correspondents, match_document_types, match_tags,    *)
(* match_storage_paths                                                     *)

\* A candidate entity: a matching model with its primary key.
Entity(pk, mm) ==
  [ pk |-> pk, made |-> TRUE, match |-> mm.match,
    is_insensitive |-> mm.is_insensitive,
    matching_algorithm |-> mm.matching_algorithm ]

\* What a rule-set evaluation did: it returned the selected entities, or an
\* exception of matches() ended it.  calls lists the outcomes of the calls
\* of matches() it made, in order.
Selected(selected, calls) ==
  [kind |-> "returned", selected |-> selected, calls |-> calls]

Aborted(exc, calls) == [kind |-> "raised", exc |-> exc, calls |-> calls]

\* The lambda with the classifier left out: matches(o, document) alone.
selects_without_prediction(o, predicted) == o.value

\* lambda o: matches(o, document) or o.pk == pred_id (matching.py:28, 38,
\* 58) and ... or o.pk in predicted_tag_ids (matching.py:48), given the
\* outcome o of matches(): predicted is evaluated only when matches() is
\* false.
selects(o, predicted) == o.value \/ predicted

\* list(filter(lambda, entities)): the entities in queryset order, each
\* kept or dropped; an exception of matches() ends the evaluation.
\* predicted_ids holds the ids the lambda compares o.pk with.
RECURSIVE filter_entities(_, _, _)
filter_entities(entities, content, predicted_ids) ==
  IF entities = << >> THEN { Selected(<< >>, << >>) }
  ELSE LET e == Head(entities)
       IN  UNION {
             IF o.kind = "raised"
             THEN { Aborted(o.exc, << o >>) }
             ELSE { IF r.kind = "raised"
                    THEN Aborted(r.exc, << o >> \o r.calls)
                    ELSE Selected((IF selects(o, e.pk \in predicted_ids)
                                   THEN << e >> ELSE << >>) \o r.selected,
                                  << o >> \o r.calls) :
                      r \in filter_entities(Tail(entities), content, predicted_ids) } :
             o \in matches(e, content) }

\* pred_id = classifier.predict_x(document.content) if classifier else None,
\* as the set of ids o.pk == pred_id holds for.  A classifier is None or
\* Some of its predictions.
PredId(classifier, category) ==
  IF IsNone(classifier) THEN {}
  ELSE IF IsNone(Val(classifier)[category]) THEN {}
  ELSE { Val(Val(classifier)[category]) }

\* predicted_tag_ids = classifier.predict_tags(document.content) if
\* classifier else []
PredictedTagIds(classifier) ==
  IF IsNone(classifier) THEN {} ELSE Val(classifier).tags

\* matching.py:22-29
match_correspondents(content, classifier, correspondents) ==
  filter_entities(correspondents, content, PredId(classifier, "correspondent"))

\* matching.py:32-39
match_document_types(content, classifier, document_types) ==
  filter_entities(document_types, content, PredId(classifier, "document_type"))

\* matching.py:42-49
match_tags(content, classifier, tags) ==
  filter_entities(tags, content, PredictedTagIds(classifier))

\* matching.py:52-62
match_storage_paths(content, classifier, storage_paths) ==
  filter_entities(storage_paths, content, PredId(classifier, "storage_path"))

Categories == { "correspondent", "document_type", "tags", "storage_path" }

\* The function of a category applied to the entities of that category.
match_category(category, content, classifier, entities) ==
  CASE category = "correspondent" -> match_correspondents(content, classifier, entities)
    [] category = "document_type" -> match_document_types(content, classifier, entities)
    [] category = "tags"          -> match_tags(content, classifier, entities)
    [] category = "storage_path"  -> match_storage_paths(content, classifier, entities)

----------------------------------------------------------------------------
(* SpecRuleSet: one rule-set evaluation                                    *)

MaxEntities == 2

\* The rules of the candidates: a word, a regular expression that does not
\* compile, one that does, a blank rule and a rule with text under an
\* algorithm matches() does not name, and a rule of two words.
CandidateRules ==
  { MatchingModel(<<"a">>, FALSE, MATCH_ANY),
    MatchingModel(<<"(", "a">>, FALSE, MATCH_REGEX),
    MatchingModel(<<"b">>, TRUE, MATCH_REGEX),
    MatchingModel(<<" ">>, FALSE, "MATCH_7"),
    MatchingModel(<<"b">>, FALSE, "MATCH_7"),
    MatchingModel(<<"a", " ", "b">>, FALSE, MATCH_ALL) }

RECURSIVE RuleSeqs(_)
RuleSeqs(n) ==
  IF n = 0 THEN { << >> }
  ELSE RuleSeqs(n - 1) \cup
       { Append(q, mm) : q \in { x \in RuleSeqs(n - 1) : Len(x) = n - 1 },
                         mm \in CandidateRules }

\* X.objects.all(): the candidates in queryset order, pk after pk.
CandidateSets ==
  { [i \in 1..Len(q) |-> Entity(i, q[i])] : q \in RuleSeqs(MaxEntities) }

\* No classifier, or a classifier with its prediction for each category
\* (None: it predicts no id).
Classifiers ==
  { None } \cup
  { Some([correspondent |-> c, document_type |-> t, tags |-> g, storage_path |-> p]) :
      c \in { None, Some(1) }, t \in { None, Some(2) },
      g \in { {}, { 1, 2 } }, p \in { None, Some(1) } }

RuleSetContents == { <<"a">>, <<"a", " ", "b">>, <<"B">> }

RuleSetUnchanged ==
  UNCHANGED <<index, scope, dq, searcher, history, store, writers, readers,
              documents, objects>>

InitRuleSet ==
  /\ index = {}
  /\ scope = IdleScope
  /\ dq = IdleDQ
  /\ searcher = {}
  /\ history = << >>
  /\ NoProcesses
  /\ documents = {}
  /\ objects = {}
  /\ \E category \in Categories, entities \in CandidateSets,
        classifier \in Classifiers :
       rule = [made |-> TRUE, category |-> category, entities |-> entities,
               classifier |-> classifier]
  /\ document \in RuleSetContents
  /\ outcome = NoOutcome

\* match_correspondents / match_document_types / match_tags /
\* match_storage_paths (document, classifier)
MatchCategory ==
  /\ outcome = NoOutcome
  /\ outcome' \in match_category(rule.category, document, rule.classifier,
                                 rule.entities)
  /\ UNCHANGED <<rule, document>>
  /\ RuleSetUnchanged

NextRuleSet == MatchCategory

SpecRuleSet == InitRuleSet /\ [][NextRuleSet]_vars

----------------------------------------------------------------------------
(* Claims about rule-set evaluation                                        *)

\* The ids the classifier predicts for the category of the evaluation.
Predicted ==
  IF IsNone(rule.classifier) THEN {}
  ELSE IF rule.category = "tags" THEN Val(rule.classifier).tags
  ELSE IF IsNone(Val(rule.classifier)[rule.category]) THEN {}
  ELSE { Val(Val(rule.classifier)[rule.category]) }

\* matches(e, document) is true / raises
MatchesTrue(e) == \E o \in matches(e, document) : o.kind = "returned" /\ o.value

MatchesRaises(e) == \E o \in matches(e, document) : o.kind = "raised"

Candidates == { rule.entities[i] : i \in 1..Len(rule.entities) }

SelectedSet == { outcome.selected[i] : i \in 1..Len(outcome.selected) }

\* C15, as stated: for each of the four functions, every document and every
\* set of candidates, a list is returned and an entity is in it iff
\* matches(entity, document) is true or the classifier predicts its id;
\* without a classifier the list holds exactly the entities matches() is
\* true for.
C15_SelectedIffMatchOrPredicted ==
  Called =>
    /\ outcome.kind = "returned"
    /\ \A e \in Candidates : e \in SelectedSet <=> (MatchesTrue(e) \/ e.pk \in Predicted)
    /\ IsNone(rule.classifier) =>
         \A e \in Candidates : e \in SelectedSet <=> MatchesTrue(e)

\* C15, amended: when matches() raises for no candidate, a list is returned
\* and an entity is in it iff matches(entity, document) is true or the
\* classifier predicts its id (without a classifier: iff matches() is
\* true); when matches() raises NotImplementedError for a candidate, the
\* function raises it and returns no list, whatever the classifier predicts.
C15_SelectedIffMatchOrPredictedUnlessRaised ==
  Called =>
    IF \E e \in Candidates : MatchesRaises(e)
    THEN outcome.kind = "raised" /\ outcome.exc = "NotImplementedError"
    ELSE /\ outcome.kind = "returned"
         /\ \A e \in Candidates :
              e \in SelectedSet <=> (MatchesTrue(e) \/ e.pk \in Predicted)
         /\ IsNone(rule.classifier) =>
              \A e \in Candidates : e \in SelectedSet <=> MatchesTrue(e)

\* C15, witness: match_tags returned two tags, the first because its rule
\* matches, the second, whose rule does not match, because the classifier
\* predicts it.
C15_Witness ==
  /\ Called
  /\ rule.category = "tags"
  /\ outcome.kind = "returned"
  /\ Len(rule.entities) = 2 /\ Len(outcome.selected) = 2
  /\ MatchesTrue(rule.entities[1])
  /\ ~MatchesTrue(rule.entities[2])
  /\ 2 \in Predicted

\* The rule of e is a REGEX rule with text whose expression does not compile.
InvalidRegexRule(e) ==
  /\ e.matching_algorithm = MATCH_REGEX
  /\ \E i \in 1..Len(e.match) : e.match[i] \notin { " ", "\t" }
  /\ ~RegexCompiles(e.match)

\* The candidates without those whose regular expression does not compile.
CandidatesWithoutInvalid ==
  SelectSeq(rule.entities, LAMBDA e : ~InvalidRegexRule(e))

\* The outcomes of the calls of matches() made on the other candidates.
CallsOnOthers ==
  LET made == SelectSeq([i \in 1..Len(outcome.calls) |-> i],
                        LAMBDA i : ~InvalidRegexRule(rule.entities[i]))
  IN  [k \in 1..Len(made) |-> outcome.calls[made[k]]]

\* C16: matches() on a REGEX rule whose expression does not compile logs
\* an error, returns False and raises nothing; in a rule-set evaluation the
\* calls on the other candidates, the entities selected among them and the
\* way the evaluation ends are those of the same evaluation on the
\* candidates without the invalid rules.
C16_InvalidRegexIsSkipped ==
  Called =>
    /\ \A i \in 1..Len(outcome.calls) :
         InvalidRegexRule(rule.entities[i])
           => outcome.calls[i] = ReturnedOutcome(FALSE, "error")
    /\ \E x \in match_category(rule.category, document, rule.classifier,
                               CandidatesWithoutInvalid) :
         /\ x.kind = outcome.kind
         /\ x.calls = CallsOnOthers
         /\ outcome.kind = "returned" =>
              x.selected = SelectSeq(outcome.selected, LAMBDA e : ~InvalidRegexRule(e))

\* C16, witness: the first candidate's regular expression does not compile;
\* the second candidate was still evaluated and selected.
C16_Witness ==
  /\ Called
  /\ Len(rule.entities) = 2
  /\ InvalidRegexRule(rule.entities[1])
  /\ outcome.kind = "returned"
  /\ Len(outcome.calls) = 2
  /\ outcome.calls[1].value = FALSE
  /\ outcome.selected = << rule.entities[2] >>
  /\ rule.entities[2].pk \notin Predicted

----------------------------------------------------------------------------
(* SpecMoreLikeThis: page fetches on one DelayedMoreLikeThisQuery          *)

\* Three public documents in the index, with scores for the similarity
\* query.
MoreLikeThisSearchers ==
  { { Posting(PublicDoc(pk), sc[pk]) : pk \in 1..3 } : sc \in [1..3 -> { 1, 2 }] }

\* The reference id: document 3, document 1, or a value that is no number.
MoreLikeThisParams ==
  { << Entry("more_like_id", <<"3">>) >>,
    << Entry("more_like_id", <<"1">>), Entry("ordering", Ordering(1, "created")) >>,
    << Entry("more_like_id", <<"x">>) >> }

\* The Document table: it holds the three documents, or document 3 was
\* deleted, or all were.
DocumentTables == { { 1, 2, 3 }, { 1, 2 }, {} }

MoreLikeThisUnchanged ==
  UNCHANGED <<index, scope, rule, document, outcome, store, writers, readers,
              searcher, documents, objects>>

InitMoreLikeThis ==
  /\ index = {}
  /\ scope = IdleScope
  /\ searcher \in MoreLikeThisSearchers
  /\ \E params \in MoreLikeThisParams, ps \in PageSizes :
       dq = NewDelayedQuery(params, ps)
  /\ history = << >>
  /\ rule = IdleRule
  /\ document = << >>
  /\ outcome = "none"
  /\ NoProcesses
  /\ documents \in DocumentTables
  /\ objects = {}

\* dq[start:stop]
MoreLikeThisGetItem ==
  /\ Len(history) < MaxFetches
  /\ \E start \in Starts :
       LET r == MLT_getitem(dq, searcher, start, documents)
       IN  /\ dq' = r.self
           /\ history' = Append(history, Fetched("getitem", start, r))
  /\ MoreLikeThisUnchanged

\* len(dq) (index.py:251-253)
MoreLikeThisLength ==
  /\ Len(history) < MaxFetches
  /\ LET r == MLT_getitem(dq, searcher, 0, documents)
     IN  /\ dq' = r.self
         /\ history' = Append(history, Fetched("len", 0, r))
  /\ MoreLikeThisUnchanged

NextMoreLikeThis == MoreLikeThisGetItem \/ MoreLikeThisLength

SpecMoreLikeThis == InitMoreLikeThis /\ [][NextMoreLikeThis]_vars

----------------------------------------------------------------------------
(* Claims about the similarity query                                       *)

\* The reference id of the cursor is a number without a row in the Document
\* table.
ReferenceMissing ==
  LET v == Param(dq.query_params, "more_like_id")
  IN  IsNumeral(v) /\ NatOf(v, 0) \notin documents

----------------------------------------------------------------------------
(* index.py: open_index with its failures                                  *)

\* What the file system does during one call: the exception exists_in,
\* open_dir and makedirs/create_in raise when they are reached ("none": the
\* call succeeds).
Environments ==
  [ exists_in : { "none" } \cup Raisable,
    open_dir  : { "none" } \cup Raisable,
    create_in : { "none", "OperationalError" } ]

OpenReturned(st, idx, contents, log) ==
  [ kind |-> "returned", exc |-> "none", contents |-> contents, log |-> log,
    store |-> st, index |-> idx ]

OpenRaised(st, idx, exc, log) ==
  [ kind |-> "raised", exc |-> exc, contents |-> {}, log |-> log,
    store |-> st, index |-> idx ]

\* index.py:70-72: the directory is made when missing and an empty index is
\* created in it; the call has nothing around it.
open_index_create(st, idx, env, log) ==
  IF env.create_in # "none"
  THEN OpenRaised(st, idx, env.create_in, log)
  ELSE LET c == create_in(st) IN OpenReturned(c.store, c.index, c.index, log)

\* index.py:63-72 with an except clause that re-raises after logging.
open_index_reraising(st, idx, recreate, env) ==
  LET logged == << [level |-> "exception", what |-> "opening", pk |-> 0] >>
  IN  IF env.exists_in # "none"
      THEN OpenRaised(st, idx, env.exists_in,
                      IF env.exists_in \in ExceptionClasses THEN logged ELSE << >>)
      ELSE IF exists_in(st) /\ ~recreate
      THEN IF env.open_dir # "none"
           THEN OpenRaised(st, idx, env.open_dir,
                           IF env.open_dir \in ExceptionClasses THEN logged ELSE << >>)
           ELSE OpenReturned(st, idx, idx, << >>)
      ELSE open_index_create(st, idx, env, << >>)

\* index.py:63-72: open_index(recreate) on the directory st holding the
\* committed contents idx.  exists_in is called whatever recreate is; an
\* Exception out of exists_in or open_dir is logged and the index is created
\* anew; any other exception leaves the function.
open_index_at(st, idx, recreate, env) ==
  LET logged == << [level |-> "exception", what |-> "opening", pk |-> 0] >>
  IN  IF env.exists_in # "none"
      THEN IF env.exists_in \in ExceptionClasses
           THEN open_index_create(st, idx, env, logged)
           ELSE OpenRaised(st, idx, env.exists_in, << >>)
      ELSE IF exists_in(st) /\ ~recreate
      THEN IF env.open_dir = "none"
           THEN OpenReturned(st, idx, idx, << >>)
           ELSE IF env.open_dir \in ExceptionClasses
           THEN open_index_create(st, idx, env, logged)
           ELSE OpenRaised(st, idx, env.open_dir, << >>)
      ELSE open_index_create(st, idx, env, << >>)

----------------------------------------------------------------------------
(* SpecOpen: calls of open_index on one index directory                    *)

MaxOpens == 1

\* The directory is missing, holds no index, or holds an index.
OpenStores ==
  { [isdir |-> FALSE, exists |-> FALSE, lock |-> 0],
    [isdir |-> TRUE, exists |-> FALSE, lock |-> 0],
    IdleStore }

OpenUnchanged ==
  UNCHANGED <<scope, dq, searcher, rule, document, outcome, writers, readers,
              documents, objects>>

InitOpen ==
  /\ store \in OpenStores
  /\ index \in (IF store.exists THEN InitialIndexes ELSE { {} })
  /\ history = << >>
  /\ scope = IdleScope
  /\ dq = IdleDQ
  /\ searcher = {}
  /\ rule = IdleRule
  /\ document = << >>
  /\ outcome = "none"
  /\ writers = << >>
  /\ readers = << >>
  /\ documents = {}
  /\ objects = {}

\* open_index(recreate)
OpenIndex ==
  /\ Len(history) < MaxOpens
  /\ \E recreate \in BOOLEAN, env \in Environments :
       LET r == open_index_at(store, index, recreate, env)
       IN  /\ store' = r.store
           /\ index' = r.index
           /\ history' = Append(history,
                [ recreate |-> recreate, env |-> env, existed |-> store.exists,
                  before |-> index, kind |-> r.kind, exc |-> r.exc,
                  contents |-> r.contents, log |-> r.log, after |-> r.index,
                  exists |-> r.store.exists ])
  /\ OpenUnchanged

NextOpen == OpenIndex

SpecOpen == InitOpen /\ [][NextOpen]_vars

----------------------------------------------------------------------------
(* Claims about open_index                                                 *)

\* The exception the existence check or the opening of the existing index
\* raised in call h ("none": neither raised).  open_dir is reached only when
\* the check found an index and recreate is false.
OpenFailure(h) ==
  IF h.env.exists_in # "none" THEN h.env.exists_in
  ELSE IF h.existed /\ ~h.recreate THEN h.env.open_dir
  ELSE "none"

\* Call h returned an empty index that it created in the directory.
ReturnedFresh(h) ==
  h.kind = "returned" /\ h.contents = {} /\ h.after = {} /\ h.exists

\* C17, as stated: open_index never propagates a failure; with recreate
\* false, when the existence check or the open raises, the failure is
\* logged and a freshly created empty index is returned; with recreate
\* true, or when no index exists, a fresh empty index is always returned.
C17_NeverPropagates ==
  \A i \in 1..Len(history) :
    LET h == history[i]
    IN  /\ h.kind = "returned"
        /\ (~h.recreate /\ OpenFailure(h) # "none") => (h.log # << >> /\ ReturnedFresh(h))
        /\ (h.recreate \/ ~h.existed) => ReturnedFresh(h)

\* C17, amended: an Exception raised by the existence check or by the open
\* is logged and never propagated, and the index is created anew; without
\* such a failure an existing index is returned as it is when recreate is
\* false, and the index is created anew when recreate is true or no index
\* exists.  Creating anew returns a fresh empty index whatever the prior
\* contents, unless makedirs/create_in raises, which propagates.  A
\* BaseException that is no Exception raised by the existence check (run for
\* both values of recreate) or by the open propagates, unlogged, and leaves
\* the index as it was.
C17_ExceptionsRecreate ==
  \A i \in 1..Len(history) :
    LET h == history[i]
        creates == IF h.env.create_in = "none"
                   THEN ReturnedFresh(h)
                   ELSE h.kind = "raised" /\ h.exc = h.env.create_in /\ h.after = h.before
    IN  CASE OpenFailure(h) \in ExceptionClasses -> h.log # << >> /\ creates
          [] OpenFailure(h) \in BaseOnlyClasses ->
               h.kind = "raised" /\ h.exc = OpenFailure(h) /\ h.log = << >>
               /\ h.after = h.before
          [] OTHER ->
               IF h.existed /\ ~h.recreate
               THEN h.kind = "returned" /\ h.contents = h.before
                    /\ h.after = h.before /\ h.log = << >>
               ELSE h.log = << >> /\ creates

\* C17, witness: opening an existing index that holds a document raised an
\* Exception; it was logged and an empty index was created and returned.
C17_Witness ==
  \E i \in 1..Len(history) :
    /\ history[i].existed /\ ~history[i].recreate
    /\ history[i].before # {}
    /\ history[i].env.exists_in = "none"
    /\ history[i].env.open_dir = "OperationalError"
    /\ history[i].log # << >>
    /\ ReturnedFresh(history[i])

----------------------------------------------------------------------------
(* Claims about the ALL algorithm                                          *)

\* A piece of text with every run of whitespace written as one WS, in lower
\* case when case is ignored.
RECURSIVE Collapsed(_, _)
Collapsed(t, ignorecase) ==
  IF t = << >> THEN << >>
  ELSE IF t[1] \in { " ", "\t" }
  THEN LET n == CHOOSE k \in 1..Len(t) :
                  /\ \A x \in 1..k : t[x] \in { " ", "\t" }
                  /\ (k = Len(t) \/ t[k + 1] \notin { " ", "\t" })
       IN  << WS >> \o Collapsed(SubSeq(t, n + 1, Len(t)), ignorecase)
  ELSE << IF ignorecase THEN Lower(t[1]) ELSE t[1] >>
         \o Collapsed(Tail(t), ignorecase)

\* A letter, digit or underscore stands at position k of text.
WordCharAt(text, k) ==
  k \in 1..Len(text) /\ text[k] \in { "a", "b", "A", "B", "_" } \cup Digits

\* A word begins or ends between positions k and k + 1 of text.
WordEdge(text, k) == WordCharAt(text, k) # WordCharAt(text, k + 1)

\* Token tok occurs in text as a whole word: some stretch of the text reads
\* as the token, a run of whitespace standing for each space of the token,
\* and a word begins or ends on both sides of the stretch.
OccursAsWholeWord(tok, text, ignorecase) ==
  \E i \in 0..Len(text) : \E j \in i..Len(text) :
    /\ Collapsed(SubSeq(text, i + 1, j), ignorecase) = Collapsed(tok, ignorecase)
    /\ WordEdge(text, i)
    /\ WordEdge(text, j)

\* C20: for a rule with algorithm ALL and a match expression that is not
\* blank, matches() returns True iff every token _split_match makes of the
\* match expression occurs in the document text as a whole word, ignoring
\* case when the rule is insensitive; one token that does not occur makes
\* the result False.
C20_AllTokensWholeWord ==
  (Called /\ rule.matching_algorithm = MATCH_ALL /\ ~BlankRule) =>
    /\ outcome.kind = "returned"
    /\ outcome.value <=>
         \A k \in 1..Len(split_match(rule.match)) :
           OccursAsWholeWord(split_match(rule.match)[k], document, rule.is_insensitive)

\* C20, witness: an insensitive ALL rule of a quoted phrase and a word
\* matched a text that holds the phrase across a run of whitespace, in
\* another case.
C20_Witness ==
  /\ Called
  /\ rule.matching_algorithm = MATCH_ALL
  /\ rule.is_insensitive
  /\ rule.match = <<"\"", "a", " ", " ", "b", "\"", "B">>
  /\ document = <<"A", " ", "\t", "b">>
  /\ outcome.kind = "returned" /\ outcome.value

----------------------------------------------------------------------------
(* Claims about the filter vocabulary                                      *)

\* The keys _get_query_filter reads: the thirteen criteria and 'user'.
FilterKeys == RecognizedKeys \cup { "user" }

\* Parameters whose keys the filter does not know.
OtherEntries ==
  { Entry("page", S_1), Entry("page", S_2), Entry("query", "other"),
    Entry("ordering", Ordering(1, "title")), Entry("more_like_id", S_1),
    Entry("tags__id__any", S_1) }

Without(params, key) == SelectSeq(params, LAMBDA e : e.k # key)

InsertAt(params, j, e) ==
  SubSeq(params, 1, j) \o << e >> \o SubSeq(params, j + 1, Len(params))

\* The parameter lists that differ from params by one parameter outside the
\* filter's keys, added, removed or changed, or by all of them removed.
Variations(params) ==
  { SelectSeq(params, LAMBDA e : e.k \in FilterKeys) }
  \cup { Without(params, params[j].k) :
           j \in { x \in 1..Len(params) : params[x].k \notin FilterKeys } }
  \cup UNION { { InsertAt(Without(params, e.k), j, e) :
                    j \in 0..Len(Without(params, e.k)) } : e \in OtherEntries }

\* C21: a parameter whose key the filter does not know, added, removed or
\* changed, leaves the compiled filter as it is; and a record passes the
\* filter only if the document satisfies every criterion of the request
\* (every listed tag id for tags__id__all, none of them for tags__id__none).
C21_UnknownKeysIgnoredCriteriaAnded ==
  \A i \in Executed :
    LET f == Val(history[i].search).filter
        params == dq.query_params
    IN  /\ \A q \in Variations(params) :
             ~FilterRaises(q) /\ get_query_filter(q) = f
        /\ \A p \in searcher :
             QueryMatches(f, p.rec) =>
               \A j \in 1..Len(params) :
                 params[j].k \in RecognizedKeys =>
                   Satisfies(p.doc, params[j].k, params[j].v)

\* C21, witness: a request with the unknown key 'query' and two criteria;
\* document 1 has a correspondent and tag 1, so it satisfies the first
\* criterion and not the second, and it is not returned.
C21_Witness ==
  /\ dq.made
  /\ dq.query_params =
       << Entry("query", "q"), Entry("correspondent__isnull", S_false),
          Entry("tags__id__none", S_12) >>
  /\ \E i \in Executed : 1 \notin HitIds(Val(history[i].page))
  /\ \E p \in PrimaryMatches :
       /\ p.doc.pk = 1
       /\ IsNone(p.doc.owner)
       /\ TagIdsOf(p.doc) = { 1 }
       /\ ~IsNone(p.doc.correspondent)

----------------------------------------------------------------------------
(* Claims about the scores of sorted and unsorted cursors                  *)

\* The 'ordering' of the cursor names a key of the sort table, with at most
\* one leading "-".
SortedCursor ==
  /\ dq.made
  /\ HasParam(dq.query_params, "ordering")
  /\ Param(dq.query_params, "ordering").dashes <= 1
  /\ \E t \in SortTable : t[1] = Param(dq.query_params, "ordering").name

\* This step is a fetch that returned a page.
FetchReturns ==
  /\ Len(history') = Len(history) + 1
  /\ ~IsNone(history'[Len(history')].page)

\* The hits of the page this step returned.
FetchedHits == PageHits(Val(history'[Len(history')].page))

\* C22: on a cursor whose 'ordering' maps to a sort field no top score is
\* ever remembered and every hit of every fetched page has a null score; on
\* a cursor without such an ordering every hit of a page fetched while a top
\* score is known has its raw score divided by the remembered top score.
C22_SortedNullUnsortedNormalized ==
  [][ /\ SortedCursor => IsNone(dq.first_score) /\ IsNone(dq'.first_score)
      /\ FetchReturns =>
           /\ SortedCursor =>
                \A k \in 1..Len(FetchedHits) : IsNone(FetchedHits[k][1])
           /\ (~SortedCursor /\ Truthy(dq'.first_score)) =>
                \A k \in 1..Len(FetchedHits) :
                  FetchedHits[k][1] =
                    Some(Ratio(RawScore(FetchedHits[k][2]), Val(dq'.first_score)))
    ]_vars

\* C22, witness: a cursor ordered by 'created' fetched two different pages
\* with hits, every hit with a null score, and remembers no top score.
C22_Witness ==
  /\ SortedCursor
  /\ Len(history) = 2
  /\ history[1].start # history[2].start
  /\ Executed = { 1, 2 }
  /\ \A i \in 1..2 :
       /\ Len(PageHits(Val(history[i].page))) > 0
       /\ \A k \in 1..Len(PageHits(Val(history[i].page))) :
            IsNone(PageHits(Val(history[i].page))[k][1])
  /\ IsNone(dq.first_score)

----------------------------------------------------------------------------
(* Specification SpecTwoCursors: fetches interleaved on two cursors.  The   *)
(* page cache of a cursor is a dict object: dq holds the cursors (objs) and *)
(* the dict objects they refer to (dicts), saved_results being a reference. *)

\* One dict object that every cursor would share.
dict_of_the_class(dicts) == 1

\* index.py:248: dict() makes a new dict object
dict_new(dicts) == Len(dicts) + 1

\* index.py:244-249: DelayedQuery(searcher, query_params, page_size) among
\* the objects of heap
DelayedQuery_init(heap, params, page_size) ==
  LET ref == dict_new(heap.dicts)
  IN  [ objs |-> Append(heap.objs,
                        [NewDelayedQuery(params, page_size) EXCEPT !.saved_results = ref]),
        dicts |-> Append(heap.dicts, << >>) ]

\* The cursor c of heap with its page cache read through the reference
Deref(heap, c) ==
  [heap.objs[c] EXCEPT !.saved_results = heap.dicts[heap.objs[c].saved_results]]

\* index.py:255-289 on cursor c: self.saved_results[item.start] = page
\* writes into the dict object the cursor refers to.
Heap_getitem(heap, c, srch, start) ==
  LET ref == heap.objs[c].saved_results
      r == DQ_getitem(Deref(heap, c), srch, start)
  IN  [ heap |-> [ objs |-> [heap.objs EXCEPT ![c] =
                                [r.self EXCEPT !.saved_results = ref]],
                   dicts |-> [heap.dicts EXCEPT ![ref] = r.self.saved_results] ],
        r |-> r ]

\* Most fetches made on the two cursors together.
MaxTwoFetches == 3

TwoCursorStarts == { 0, 1 }

TwoCursorSearchers ==
  { { Posting(PublicDoc(pk), sc[pk]) : pk \in 1..3 } :
      sc \in { <<2, 1, 1>>, <<1, 2, 0>>, <<0, 0, 0>> } }

EmptyHeap == [objs |-> << >>, dicts |-> << >>]

InitTwoCursors ==
  /\ index = {}
  /\ scope = IdleScope
  /\ searcher \in TwoCursorSearchers
  /\ \E p1 \in CursorParams, p2 \in CursorParams, ps \in PageSizes :
       dq = DelayedQuery_init(DelayedQuery_init(EmptyHeap, p1, ps), p2, ps)
  /\ history = << >>
  /\ rule = IdleRule
  /\ document = << >>
  /\ outcome = "none"
  /\ NoProcesses
  /\ documents = {}
  /\ objects = {}

\* cursor c [start:stop]
FetchOn(c) ==
  \E start \in TwoCursorStarts :
    /\ Len(history) < MaxTwoFetches
    /\ \E g \in { Heap_getitem(dq, c, searcher, start) } :
         /\ dq' = g.heap
         /\ history' = Append(history, [cursor |-> c] @@ Fetched("getitem", start, g.r))
    /\ UNCHANGED searcher
    /\ CursorUnchanged

\* len(cursor c)
LengthOf(c) ==
  /\ Len(history) < MaxTwoFetches
  /\ \E g \in { Heap_getitem(dq, c, searcher, 0) } :
       /\ dq' = g.heap
       /\ history' = Append(history, [cursor |-> c] @@ Fetched("len", 0, g.r))
  /\ UNCHANGED searcher
  /\ CursorUnchanged

FetchOnFirst == FetchOn(1)

FetchOnSecond == FetchOn(2)

LengthOfFirst == LengthOf(1)

LengthOfSecond == LengthOf(2)

NextTwoCursors == FetchOnFirst \/ FetchOnSecond \/ LengthOfFirst \/ LengthOfSecond

SpecTwoCursors == InitTwoCursors /\ [][NextTwoCursors]_vars

----------------------------------------------------------------------------
(* Claims about two cursors                                                *)

\* The page cache and the remembered top score of cursor c
PrivateState(heap, c) ==
  [ cache |-> Deref(heap, c).saved_results,
    first_score |-> heap.objs[c].first_score ]

\* This step is a call on cursor c.
CallOn(c) ==
  /\ Len(history') = Len(history) + 1
  /\ history'[Len(history')].cursor = c

\* C23: a page fetch on one cursor changes neither the page cache nor the
\* remembered top score of the other cursor, in every interleaving of
\* fetches on the two, also when both were created over the same searcher
\* with the same query parameters.
C23_CursorsArePrivate ==
  [][ \A c \in 1..2 :
        CallOn(c) => PrivateState(dq', 3 - c) = PrivateState(dq, 3 - c)
    ]_vars

\* C23, witness: two cursors with the same parameters; the first fetched
\* offset 0 and cached a page with a top score, then the second fetched
\* offset 0 and executed its own search.
C23_Witness ==
  /\ Len(history) = 2
  /\ dq.objs[1].query_params = dq.objs[2].query_params
  /\ history[1].cursor = 1 /\ history[2].cursor = 2
  /\ history[1].start = 0 /\ history[2].start = 0
  /\ Executed = { 1, 2 }
  /\ Truthy(dq.objs[1].first_score)
  /\ DOMAIN PrivateState(dq, 1).cache = { 0 }
  /\ DOMAIN PrivateState(dq, 2).cache = { 0 }

----------------------------------------------------------------------------
(* Claims about the remembered top score                                   *)

\* The start offset this step's call asked for
CalledStart == history'[Len(history')].start

\* C24: once a cursor has remembered a top score no later fetch changes it,
\* every page computed afterwards is normalized by that same score, and a
\* cached page is returned as it was cached, its scores normalized once.
C24_TopScoreFixedCacheNotRenormalized ==
  [][ /\ (dq.made /\ ~IsNone(dq.first_score)) =>
           /\ dq'.first_score = dq.first_score
           /\ (FetchReturns /\ ~IsNone(history'[Len(history')].search)) =>
                \A k \in 1..Len(FetchedHits) :
                  ~IsNone(FetchedHits[k][1]) =>
                    Val(FetchedHits[k][1]).den = Val(dq.first_score)
      /\ (dq.made /\ FetchReturns /\ CalledStart \in DOMAIN dq.saved_results) =>
           /\ Val(history'[Len(history')].page) = dq.saved_results[CalledStart]
           /\ dq'.saved_results = dq.saved_results
           /\ \A k \in 1..Len(FetchedHits) :
                ~IsNone(FetchedHits[k][1]) =>
                  FetchedHits[k][1] =
                    Some(Ratio(RawScore(FetchedHits[k][2]), Val(dq.first_score)))
    ]_vars

\* C24, witness: page size 1; offset 0 is fetched and the top score 2 is
\* remembered, offset 1 is computed and normalized by 2, and offset 0 is
\* returned again from the cache with its score 2/2.
C24_Witness ==
  /\ dq.made /\ dq.page_size = 1
  /\ Len(history) = 3
  /\ history[1].start = 0 /\ history[2].start = 1 /\ history[3].start = 0
  /\ Executed = { 1, 2 }
  /\ dq.first_score = Some(2)
  /\ PageHits(Val(history[2].page))[1][1] = Some(Ratio(1, 2))
  /\ PageHits(Val(history[3].page))[1][1] = Some(Ratio(2, 2))

----------------------------------------------------------------------------
(* Claims that relate the algorithms                                       *)

\* The rule of the state with another algorithm
RuleWith(algorithm) == [rule EXCEPT !.matching_algorithm = algorithm]

\* C25: whatever the match expression, the case flag and the text, when
\* matches() returns True for a rule with algorithm ALL it returns True for
\* the same rule with algorithm ANY.
C25_AllImpliesAny ==
  ( /\ Called
    /\ rule.matching_algorithm = MATCH_ALL
    /\ outcome.kind = "returned"
    /\ outcome.value ) =>
    \A o \in matches(RuleWith(MATCH_ANY), document) :
      o.kind = "returned" /\ o.value

\* C25, witness: an insensitive ALL rule of two words returned True on a
\* text that holds both in the other case.
C25_Witness ==
  /\ Called
  /\ rule.matching_algorithm = MATCH_ALL
  /\ rule.is_insensitive
  /\ Len(split_match(rule.match)) = 2
  /\ split_match(rule.match)[1] # split_match(rule.match)[2]
  /\ outcome.kind = "returned" /\ outcome.value
  /\ \A i \in 1..2 : ~SearchWord(split_match(rule.match)[i], document, FALSE)

----------------------------------------------------------------------------
(* serialisers.py: MatchingModelSerializer and OwnedObjectSerializer, as   *)
(* CorrespondentSerializer and the other rule serializers combine them     *)

\* A field the request data does not hold, and one it holds with value x
Absent == << >>

Given(x) == << x >>

Has(data, field) == data[field] # Absent

\* The data of a request: name, owner (None or a user id), match, and
\* matching_algorithm as it came over the wire.
RequestData(name, owner, match, matching_algorithm) ==
  [name |-> name, owner |-> owner, match |-> match,
   matching_algorithm |-> matching_algorithm]

\* A matching_algorithm of the request: the number as a JSON number, or the
\* same number as a str (a form field, a quoted JSON value).
AsInt(algorithm) == [int |-> algorithm]

AsStr(algorithm) == [str |-> algorithm]

\* The choice field's internal value: the number either way
AlgorithmOf(wire) == IF "int" \in DOMAIN wire THEN wire.int ELSE wire.str

\* A row of the table
RuleRow(pk, name, owner, match, matching_algorithm) ==
  [pk |-> pk, name |-> name, owner |-> owner, match |-> match,
   matching_algorithm |-> matching_algorithm]

\* self.Meta.model.objects.filter(name=, owner=).exclude(pk=).exists()
name_owner_exists(rows, name, owner, pk) ==
  \E o \in rows :
    /\ o.name = name
    /\ o.owner = owner
    /\ IsNone(pk) \/ o.pk # Val(pk)

\* serialisers.py:71-89: MatchingModelSerializer.validate raises
\* ValidationError.  self.user always exists (serialisers.py:154), so the
\* owner looked up is that of the data or else the requesting user.
validate_raises(rows, instance, data, user) ==
  LET name == IF Has(data, "name") THEN data.name[1] ELSE Val(instance).name
      owner == IF Has(data, "owner") THEN data.owner[1] ELSE user
      pk == IF IsNone(instance) THEN None ELSE Some(Val(instance).pk)
  IN  /\ Has(data, "name") \/ Has(data, "owner")
      /\ name_owner_exists(rows, name, owner, pk)

\* serialisers.py:91-102: MatchingModelSerializer.validate_match raises
\* ValidationError.  initial_data holds the algorithm as it came.
validate_match_raises(initial_data, match) ==
  /\ Has(initial_data, "matching_algorithm")
  /\ initial_data.matching_algorithm[1] = AsInt(MATCH_REGEX)
  /\ ~RegexCompiles(match)

\* Two rows of the table with one name and one owner
HasDuplicate(rows) ==
  \E a \in rows, b \in rows : a.pk # b.pk /\ a.name = b.name /\ a.owner = b.owner

\* Model.save(): a table that carries a unique constraint on (name, owner)
\* refuses the row with IntegrityError.
Saved(table, rows) ==
  IF table.unique_constraint /\ HasDuplicate(rows)
  THEN [raised |-> "IntegrityError", rows |-> table.rows]
  ELSE [raised |-> "none", rows |-> rows]

\* serialisers.py:193-204: OwnedObjectSerializer.create; a field left out
\* takes the default of the model (no owner, empty match, MATCH_ANY).
serializer_create(table, data, user) ==
  LET owner == IF ~IsNone(user) /\ (~Has(data, "owner") \/ IsNone(data.owner[1]))
               THEN user
               ELSE IF Has(data, "owner") THEN data.owner[1] ELSE None
      row == RuleRow(Cardinality(table.rows) + 1, data.name[1], owner,
                     IF Has(data, "match") THEN data.match[1] ELSE << >>,
                     IF Has(data, "matching_algorithm")
                     THEN AlgorithmOf(data.matching_algorithm[1]) ELSE MATCH_ANY)
  IN  Saved(table, table.rows \cup { row })

\* serialisers.py:206-220: OwnedObjectSerializer.update
serializer_update(table, instance, data) ==
  LET name == IF Has(data, "name") THEN data.name[1] ELSE instance.name
      not_unique == /\ Has(data, "owner")
                    /\ \E o \in table.rows :
                         o.pk # instance.pk /\ o.owner = data.owner[1] /\ o.name = name
      row == RuleRow(instance.pk, name,
                     IF Has(data, "owner") THEN data.owner[1] ELSE instance.owner,
                     IF Has(data, "match") THEN data.match[1] ELSE instance.match,
                     IF Has(data, "matching_algorithm")
                     THEN AlgorithmOf(data.matching_algorithm[1])
                     ELSE instance.matching_algorithm)
  IN  IF not_unique
      THEN [raised |-> "ValidationError", rows |-> table.rows]
      ELSE Saved(table, (table.rows \ { instance }) \cup { row })

\* serializer.is_valid(raise_exception=True) followed by serializer.save():
\* the fields of the data are validated (name is required unless the update
\* is partial; validate_match runs when match is in the data), then
\* validate(), then create() without an instance and update() with one.
serializer_save(table, instance, data, partial, user) ==
  IF ~partial /\ ~Has(data, "name")
  THEN [raised |-> "ValidationError", rows |-> table.rows]
  ELSE IF Has(data, "match") /\ validate_match_raises(data, data.match[1])
  THEN [raised |-> "ValidationError", rows |-> table.rows]
  ELSE IF validate_raises(table.rows, instance, data, user)
  THEN [raised |-> "ValidationError", rows |-> table.rows]
  ELSE IF IsNone(instance) THEN serializer_create(table, data, user)
  ELSE serializer_update(table, Val(instance), data)

SerializerUnchanged ==
  UNCHANGED <<index, scope, dq, searcher, rule, document, store, writers, readers,
              documents>>

\* One request: POST (no instance), PUT or PATCH (partial) on a row
Request(datas, users, limit) ==
  \E data \in datas, user \in users, partial \in BOOLEAN :
    \E instance \in { None } \cup { Some(o) : o \in objects.rows } :
      /\ Len(history) < limit
      /\ IsNone(instance) => ~partial
      /\ LET r == serializer_save(objects, instance, data, partial, user)
         IN  /\ objects' = [objects EXCEPT !.rows = r.rows]
             /\ outcome' = r.raised
             /\ history' = Append(history,
                                  IF IsNone(instance) THEN "POST"
                                  ELSE IF partial THEN "PATCH" ELSE "PUT")
      /\ SerializerUnchanged

InitSerializer ==
  /\ index = {}
  /\ scope = IdleScope
  /\ dq = IdleDQ
  /\ searcher = {}
  /\ history = << >>
  /\ rule = IdleRule
  /\ document = << >>
  /\ outcome = "none"
  /\ NoProcesses
  /\ documents = {}
  /\ \E c \in BOOLEAN : objects = [rows |-> {}, unique_constraint |-> c]

----------------------------------------------------------------------------
(* Specification SpecRegexRules: requests that set match and algorithm     *)

MaxRuleRequests == 3

RegexRuleData ==
  { RequestData(name, Absent, match, algorithm) :
      name \in { Absent, Given("n") },
      match \in { Absent, Given(<<"a">>), Given(<<"(", "a">>) },
      algorithm \in { Absent, Given(AsInt(MATCH_REGEX)), Given(AsStr(MATCH_REGEX)),
                      Given(AsInt(MATCH_ANY)) } }

SaveRule == Request(RegexRuleData, { None }, MaxRuleRequests)

NextRegexRules == SaveRule

SpecRegexRules == InitSerializer /\ [][NextRegexRules]_vars

----------------------------------------------------------------------------
(* Specification SpecOwnedNames: requests that set name and owner          *)

MaxNameRequests == 2

OwnedNameData ==
  { RequestData(name, owner, Absent, Absent) :
      name \in { Absent, Given("n"), Given("m") },
      owner \in { Absent, Given(None), Given(Some(1)), Given(Some(2)) } }

SaveNamed == Request(OwnedNameData, { None, Some(1) }, MaxNameRequests)

NextOwnedNames == SaveNamed

SpecOwnedNames == InitSerializer /\ [][NextOwnedNames]_vars

----------------------------------------------------------------------------
(* Claims about the rule serializers                                       *)

\* C26: after any sequence of creations and updates, full or partial, that
\* validation accepted, every stored rule whose algorithm is REGEX has a
\* match expression that compiles.
C26_StoredRegexCompiles ==
  \A o \in objects.rows :
    o.matching_algorithm = MATCH_REGEX => RegexCompiles(o.match)

\* C27: after any sequence of creations and updates that validation
\* accepted, no two rows of the table have the same name and the same owner.
C27_NameOwnerUnique ==
  \A a \in objects.rows, b \in objects.rows :
    a.pk # b.pk => (a.name # b.name \/ a.owner # b.owner)

====
